---- MODULE Spec2Model ----
(***************************************************************************)
(* SampleGalaxy: the corpus pipeline (analyzer.py, extractor.py,           *)
(* sorter.py) and the interactive Query Engine (ui_components.py,          *)
(* main.py), modelled as independent state machines that share one module: *)
(*   SpecOverlap   remove_overlaps (spiral-search grid placement)          *)
(*   SpecClassify  classify_sample (ordered keyword rules)                 *)
(*   SpecQuery     GalaxyPlotWidget, either the one of ui_components.py    *)
(*                 or the one of main.py                                   *)
(*   SpecPipeline  analyze_samples / extractor.main (cache merge loop)     *)
(* Each machine owns a group of variables; the other groups stay idle.     *)
(***************************************************************************)
EXTENDS Integers, Sequences, FiniteSets, TLC

VARIABLES
    \* ---- remove_overlaps (analyzer.py:16-90, sorter.py:44-92)
    ro_pc,          \* "start" | "scan" | "done": position in remove_overlaps
    coords,         \* the input: sequence of <<x, y>> raw coordinates
    spread2,        \* the spread argument in halves (spread = spread2 / 2)
    ro_i,           \* index of the point being placed (1-based; source i + 1)
    radius,         \* current spiral radius of the while loop
    occupied,       \* set of claimed cells
    final_coords,   \* output array, np.zeros_like(coords) until written
    ro_prev,        \* None, or Some(output of the first call) during a second call
    \* ---- classify_sample (analyzer.py:167-218, sorter.py:14-42)
    cl_pc,          \* "call" | "analyzer" | "done"
    file_path,      \* argument file_path
    duration,       \* argument duration, in milliseconds
    category,       \* label returned by analyzer.classify_sample
    sorter_category, \* label returned by sorter.classify_sample
    \* ---- GalaxyPlotWidget of ui_components.py (indices are 1-based)
    qe_pc,          \* "run" while the widget exists
    ids_arr,        \* normalized path per record
    pos_arr,        \* <<x, y>> per record
    duration_arr,   \* float32 duration per record
    category_arr,   \* category per record
    is_fav_arr,     \* favourite flag per record
    path_to_index,  \* dict path -> index
    start_times,    \* dict path -> start_time
    favorites,      \* the FavoriteSet
    favorites_file, \* content of favorites.json: NoneSet (missing) or Some(paths)
    filter_oneshot,
    filter_favorites_only,
    visible_categories,
    visible_indices, \* None or Some(ascending sequence of visible indices)
    current_pos,    \* None or Some(<<x, y>>)
    last_played_path, \* "None" or a path
    qe_last,        \* arguments and result of the last lookup or jump
    points_data,    \* the records as loaded
    \* ---- GalaxyPlotWidget of main.py
    mn_pc,          \* "init" until MainWindow.__init__ has called load_data, then "run" | "raised"
    mn_points_data,
    mn_coords_array, \* None or Some(sequence of <<x, y>>)
    mn_favorites,
    mn_favorites_file,
    mn_filter_oneshot,
    mn_filter_favorites_only,
    mn_visible_categories,
    mn_visible_points_data, \* indices of the visible items, in list order
    mn_visible_coords_cache, \* None or Some(sequence of <<x, y>>)
    mn_current_pos,
    mn_last_played_path,
    mn_last,        \* arguments and result of the last lookup or jump
    \* ---- analyze_samples (analyzer.py:231-376) and main (extractor.py:87-120)
    pl_pc,          \* "start" | "loop" | "write" | "done" | "failed" | "raised"
    pl_prog,        \* "analyzer" | "extractor" | "sorter": the program that runs
    existing_data,  \* per path: "none" (no entry) or the state of its features
    on_disk,        \* paths for which os.path.exists holds
    new_files,      \* result of scan_directory
    all_paths,      \* the list the main loop walks
    pl_i,           \* 1-based position of the loop in all_paths
    valid_files,    \* analyzer: valid_files; extractor: paths of results
    feature_list,   \* per valid file: whose features, and where they came from
    metadata_list,  \* analyzer: per valid file, whose metadata and where from
    extracted,      \* paths handed to extract_features / extract_raw_features
    output_file,    \* None until the run writes, then Some(list of records)
    pl_reduced,     \* "no" | "tsne" (TSNE.fit_transform was called) | "skipped"
    \* ---- AudioEngine of audio_engine.py (players are numbered from 1)
    ae_pc,          \* "run" while the engine exists
    pool_index,     \* index of the pool player the next polyphonic play takes
    ae_playing,     \* per pool player: the sound it plays, 0 when stopped
    ae_main,        \* the sound the main player was last given, 0 for none
    ae_timers,      \* pending QTimer.singleShot(300, p.stop) calls, oldest first
    ae_plays,       \* number of play calls so far; the n-th call plays sound n
    \* ---- right-button scrub of GalaxyPlotWidget (main.py) ----
    sc_right,             \* the right button is held
    scrub_stop_timer,     \* Inactive, or the ticks left until timeout
    scrub_pool,           \* per player of scrub_pool: playbackState() is PlayingState
    sc_pool_index,        \* self.pool_index
    sc_last_played_path,  \* self.last_played_path
    sc_since_miss         \* ticks since the first of the current run of misses, or -1

ro_vars == <<ro_pc, coords, spread2, ro_i, radius, occupied, final_coords, ro_prev>>

cl_vars == <<cl_pc, file_path, duration, category, sorter_category>>

qe_vars == <<qe_pc, ids_arr, pos_arr, duration_arr, category_arr, is_fav_arr,
             path_to_index, start_times, favorites, favorites_file, filter_oneshot,
             filter_favorites_only, visible_categories, visible_indices,
             current_pos, last_played_path, qe_last, points_data>>

mn_vars == <<mn_pc, mn_points_data, mn_coords_array, mn_favorites, mn_favorites_file,
             mn_filter_oneshot, mn_filter_favorites_only, mn_visible_categories,
             mn_visible_points_data, mn_visible_coords_cache, mn_current_pos,
             mn_last_played_path, mn_last>>

pl_vars == <<pl_pc, pl_prog, existing_data, on_disk, new_files, all_paths, pl_i,
             valid_files, feature_list, metadata_list, extracted, output_file,
             pl_reduced>>

ae_vars == <<ae_pc, pool_index, ae_playing, ae_main, ae_timers, ae_plays>>

sc_vars == <<sc_right, scrub_stop_timer, scrub_pool, sc_pool_index, sc_last_played_path, sc_since_miss>>

vars == <<ro_vars, cl_vars, qe_vars, mn_vars, pl_vars, ae_vars, sc_vars>>

\* the groups a machine leaves alone
ro_others == <<cl_vars, qe_vars, mn_vars, pl_vars, ae_vars, sc_vars>>
cl_others == <<ro_vars, qe_vars, mn_vars, pl_vars, ae_vars, sc_vars>>
qe_others == <<ro_vars, cl_vars, mn_vars, pl_vars, ae_vars, sc_vars>>
mn_others == <<ro_vars, cl_vars, qe_vars, pl_vars, ae_vars, sc_vars>>
pl_others == <<ro_vars, cl_vars, qe_vars, mn_vars, ae_vars, sc_vars>>
sc_others == <<ro_vars, cl_vars, qe_vars, mn_vars, pl_vars, ae_vars>>
ae_others == <<ro_vars, cl_vars, qe_vars, mn_vars, pl_vars, sc_vars>>

-----------------------------------------------------------------------------
(* Bounds of the model.                                                    *)

\* The source clamps grid_size to at least 100 (analyzer.py:30, sorter.py:49).
\* Filling the rings 0..2G-1 around one cell takes (4G-1)^2 points, 159201
\* for G = 100, so the model scales the clamp down; every other line of
\* remove_overlaps is kept, and the claims are stated for the computed G.
MinGridSize == 1
\* Inputs of remove_overlaps: a free prefix of at most MaxPrefix points
\* followed by at most MaxPile copies of one point.
MaxPrefix == 2
MaxPile == 10
\* Database files hold every list of at most MaxRecs records, plus two named
\* larger ones.
MaxRecs == 1
\* jump_to_random_neighbor slices argsort(dists)[1:51], 50 neighbours
\* (ui_components.py:483, main.py:433); the model scales the 50 down.
NeighborCount == 1
\* The dense inputs of the termination runs pile up MaxDense points on one
\* cell: (4 * MinGridSize + 1)^2 + 1, one more than rings 0..2G hold.
MaxDense == 26
\* The scrub pool has 8 players (audio_engine.py:6, main.py:137); the model
\* scales the pool down.  A run makes at most MaxPlays play calls.
PoolSize == 2
MaxPlays == 5

\* the 400 ms of scrub_stop_timer.start(400), in ticks of 100 ms
ScrubTicks == 4
\* A pipeline run sees at most MaxPaths distinct paths.
MaxPaths == 3

-----------------------------------------------------------------------------
(* Integer helpers.                                                        *)

Abs(a) == IF a < 0 THEN -a ELSE a

Max2(a, b) == IF a >= b THEN a ELSE b

Min2(a, b) == IF a <= b THEN a ELSE b

\* floor(sqrt(a)) for a >= 0
ISqrt(a) == CHOOSE k \in 0..a : k * k <= a /\ (k + 1) * (k + 1) > a

\* Python round(num / den) for num >= 0, den > 0: round half to even
RoundHalfEven(num, den) ==
    LET q == num \div den
        r == num % den
    IN  IF 2 * r < den THEN q
        ELSE IF 2 * r > den THEN q + 1
        ELSE IF q % 2 = 0 THEN q ELSE q + 1

SeqToSet(s) == { s[k] : k \in 1..Len(s) }

-----------------------------------------------------------------------------
(* remove_overlaps                                                         *)

\* Raw coordinates the inputs are drawn from.
RawPts == { <<0, 0>>, <<1, 0>>, <<2, 2>> }

\* spread values 0, 0.5 and 1.0, in halves
Spreads2 == { 0, 1, 2 }

Pile(p, k) == [ j \in 1..k |-> p ]

Prefixes == UNION { [ 1..k -> RawPts ] : k \in 0..MaxPrefix }

InputCoords == { pre \o Pile(p, k) : pre \in Prefixes, p \in RawPts, k \in 0..MaxPile }

\* round(sqrt(n) * spread) for spread = s2 / 2, ties to the even integer: with
\* m = floor(s2 * sqrt(n)) the value s2 * sqrt(n) / 2 is m / 2 when s2^2 * n is
\* the square of m, and lies strictly between m / 2 and (m + 1) / 2 otherwise
RoundSqrt(n, s2) ==
    LET a == s2 * s2 * n
        m == ISqrt(a)
    IN  IF m * m = a THEN RoundHalfEven(m, 2)
        ELSE IF m % 2 = 0 THEN m \div 2 ELSE (m + 1) \div 2

\* mutant of GridSize: the product is rounded to the nearest integer
GridSize_Rounded(n, s2) == Max2(MinGridSize, RoundSqrt(n, s2))

\* grid_size = int(math.sqrt(n_points) * spread); if grid_size < 100: 100
\* int() truncates: floor(s2 * sqrt(n) / 2) = floor(floor(sqrt(s2^2 * n)) / 2)
GridSize(n, s2) == Max2(MinGridSize, ISqrt(s2 * s2 * n) \div 2)

grid_size == GridSize(Len(coords), spread2)

\* np.min / np.max over axis 0, and range_vals with zero ranges set to 1
MinVal(cs, ax) == CHOOSE m \in { cs[k][ax] : k \in 1..Len(cs) } :
                      \A k \in 1..Len(cs) : m <= cs[k][ax]

MaxVal(cs, ax) == CHOOSE m \in { cs[k][ax] : k \in 1..Len(cs) } :
                      \A k \in 1..Len(cs) : m >= cs[k][ax]

RangeVal(cs, ax) ==
    LET r == MaxVal(cs, ax) - MinVal(cs, ax) IN IF r = 0 THEN 1 ELSE r

\* ix, iy = int(round(x)), int(round(y)) of the scaled coordinate
\* (coords - min_vals) / range_vals * grid_size
PreferredAxis(cs, k, ax, G) ==
    RoundHalfEven((cs[k][ax] - MinVal(cs, ax)) * G, RangeVal(cs, ax))

PreferredCell(cs, k, G) == << PreferredAxis(cs, k, 1, G), PreferredAxis(cs, k, 2, G) >>

\* mutant of get_spiral_points: the left edge is walked top to bottom
get_spiral_points_LeftEdgeDownward(cx, cy, r) ==
    IF r = 0 THEN << <<cx, cy>> >>
    ELSE [ j \in 1..(2 * r + 1) |-> << cx - r + (j - 1), cy - r >> ]
      \o [ j \in 1..(2 * r)     |-> << cx + r, cy - r + j >> ]
      \o [ j \in 1..(2 * r)     |-> << cx + r - j, cy + r >> ]
      \o [ j \in 1..(2 * r - 1) |-> << cx - r, cy - r + j >> ]

\* get_spiral_points(cx, cy, radius): the cells of one ring, in yield order
get_spiral_points(cx, cy, r) ==
    IF r = 0 THEN << <<cx, cy>> >>
    ELSE [ j \in 1..(2 * r + 1) |-> << cx - r + (j - 1), cy - r >> ]        \* top edge
      \o [ j \in 1..(2 * r)     |-> << cx + r, cy - r + j >> ]              \* right edge
      \o [ j \in 1..(2 * r)     |-> << cx + r - j, cy + r >> ]              \* bottom edge
      \o [ j \in 1..(2 * r - 1) |-> << cx - r, cy + r - j >> ]              \* left edge

\* mutant of FirstFree: the occupancy test is dropped
FirstFree_NoOccupancyCheck(pts, occ) == 1

\* index of the first cell of pts that is not in occ, 0 when there is none
FirstFree(pts, occ) ==
    IF \E k \in 1..Len(pts) : pts[k] \notin occ
    THEN CHOOSE k \in 1..Len(pts) :
             /\ pts[k] \notin occ
             /\ \A j \in 1..(k - 1) : pts[j] \in occ
    ELSE 0

\* mutant of RadiusCapReached: the cap is never reached
RadiusCapReached_Never(r, G) == FALSE

\* radius > grid_size * 2 after radius += 1
RadiusCapReached(r, G) == r > G * 2

ro_Idle ==
    /\ ro_pc = "idle"
    /\ coords = << >>
    /\ spread2 = 0
    /\ ro_i = 0
    /\ radius = 0
    /\ occupied = {}
    /\ final_coords = << >>
    /\ ro_prev = [ none |-> TRUE, v |-> << >> ]

ro_Init ==
    /\ ro_pc = "start"
    /\ coords \in InputCoords
    /\ spread2 \in Spreads2
    /\ ro_i = 0
    /\ radius = 0
    /\ occupied = {}
    /\ final_coords = << >>
    /\ ro_prev = [ none |-> TRUE, v |-> << >> ]

\* mutant of InitialOccupied: the set of the previous call is carried over
InitialOccupied_CarriedOver(left_over) == left_over

\* occupied = set(): the call starts from an empty set, whatever an earlier
\* call left behind
InitialOccupied(left_over) == {}

\* lines 22-45: the empty input is returned as is; otherwise the grid is
\* sized, the output array is zeroed and the loop starts at the first point
ro_Start ==
    /\ ro_pc = "start"
    /\ IF Len(coords) = 0
       THEN /\ ro_pc' = "done"
            /\ ro_i' = 0
            /\ final_coords' = coords
       ELSE /\ ro_pc' = "scan"
            /\ ro_i' = 1
            /\ final_coords' = [ k \in 1..Len(coords) |-> <<0, 0>> ]
    /\ radius' = 0
    /\ occupied' = InitialOccupied(occupied)
    /\ UNCHANGED <<coords, spread2, ro_prev, ro_others>>

\* lines 76-88: one iteration of `while not found`: the for loop over the
\* ring claims the first free cell, then radius += 1, then the cap check,
\* which overwrites final_coords[i] with the preferred cell and breaks
ro_ScanRing ==
    /\ ro_pc = "scan"
    /\ LET G     == grid_size
           pref  == PreferredCell(coords, ro_i, G)
           pts   == get_spiral_points(pref[1], pref[2], radius)
           k     == FirstFree(pts, occupied)
           found == k # 0
           fc1   == IF found THEN [final_coords EXCEPT ![ro_i] = pts[k]]
                    ELSE final_coords
           capped == RadiusCapReached(radius + 1, G)
           fc2   == IF capped THEN [fc1 EXCEPT ![ro_i] = pref] ELSE fc1
       IN  /\ occupied' = IF found THEN occupied \cup { pts[k] } ELSE occupied
           /\ final_coords' = fc2
           /\ IF capped \/ found
              THEN \* the while loop ends: next point of the for loop
                   /\ radius' = 0
                   /\ IF ro_i = Len(coords)
                      THEN ro_pc' = "done" /\ ro_i' = ro_i
                      ELSE ro_pc' = "scan" /\ ro_i' = ro_i + 1
              ELSE /\ radius' = radius + 1
                   /\ UNCHANGED <<ro_pc, ro_i>>
    /\ UNCHANGED <<coords, spread2, ro_prev, ro_others>>

\* remove_overlaps returns and is called once more with the same coords and
\* the same spread; the first output is kept for comparison.  The locals of
\* the first call keep their last values until the second call assigns them.
ro_CallAgain ==
    /\ ro_pc = "done"
    /\ ro_prev.none
    /\ ro_prev' = [ none |-> FALSE, v |-> final_coords ]
    /\ ro_pc' = "start"
    /\ UNCHANGED <<coords, spread2, ro_i, radius, occupied, final_coords, ro_others>>

ro_Next == ro_Start \/ ro_ScanRing \/ ro_CallAgain

-----------------------------------------------------------------------------
(* classify_sample                                                         *)

\* str.lower() on the letters that occur in the inputs
LowerChar(c) ==
    LET up == ("A" :> "a") @@ ("B" :> "b") @@ ("C" :> "c") @@ ("D" :> "d") @@
              ("E" :> "e") @@ ("F" :> "f") @@ ("G" :> "g") @@ ("H" :> "h") @@
              ("I" :> "i") @@ ("J" :> "j") @@ ("K" :> "k") @@ ("L" :> "l") @@
              ("M" :> "m") @@ ("N" :> "n") @@ ("O" :> "o") @@ ("P" :> "p") @@
              ("Q" :> "q") @@ ("R" :> "r") @@ ("S" :> "s") @@ ("T" :> "t") @@
              ("U" :> "u") @@ ("V" :> "v") @@ ("W" :> "w") @@ ("X" :> "x") @@
              ("Y" :> "y") @@ ("Z" :> "z")
    IN  IF c \in DOMAIN up THEN up[c] ELSE c

RECURSIVE LowerFrom(_, _)
LowerFrom(s, k) ==
    IF k > Len(s) THEN "" ELSE LowerChar(SubSeq(s, k, k)) \o LowerFrom(s, k + 1)

Lower(s) == LowerFrom(s, 1)

\* os.path.basename: the part after the last "/"
Basename(p) ==
    LET slashes == { k \in 1..Len(p) : SubSeq(p, k, k) = "/" }
        last    == IF slashes = {} THEN 0
                   ELSE CHOOSE k \in slashes : \A j \in slashes : j <= k
    IN  SubSeq(p, last + 1, Len(p))

\* Python `tok in name`
Contains(name, tok) ==
    \E k \in 1..(Len(name) - Len(tok) + 1) : SubSeq(name, k, k + Len(tok) - 1) = tok

\* any(x in name for x in toks)
ContainsAny(name, toks) == \E tok \in toks : Contains(name, tok)

GuitarTokens == { "guitar", "gtr", "acoustic", "electric" }
PianoTokens  == { "piano", "key", "synth", "rhodes", "organ" }
SnareTokens  == { "snare", "sd" }
ClapTokens   == { "clap", "cp" }
HihatTokens  == { "hat", "hh", "oh", "ch" }
CrashTokens  == { "crash", "cymbal", "ride", "cy" }
TomTokens    == { "tom", "tm" }
FxTokens     == { "fx", "sfx", "riser", "downer", "vox", "vocal" }

\* duration > 4.0 (milliseconds)
IsLongLoop(dur) == dur > 4000

\* mutant of IsLongKick: the comparison includes 0.8
IsLongKick_Inclusive(dur) == dur >= 800

\* duration > 0.8 (milliseconds)
IsLongKick(dur) == dur > 800

\* mutant of classify_sample: the kick rule is tested before the bass rule
classify_sample_KickBeforeBass(path, dur) ==
    LET name == Lower(Basename(path)) IN
    IF Contains(name, "bpm") \/ Contains(name, "loop") \/ IsLongLoop(dur) THEN "LOOP"
    ELSE IF ContainsAny(name, GuitarTokens) THEN "GUITAR"
    ELSE IF ContainsAny(name, PianoTokens) THEN "PIANO"
    ELSE IF Contains(name, "kick") \/ Contains(name, "bd")
         THEN (IF IsLongKick(dur) THEN "BASS" ELSE "KICK")
    ELSE IF Contains(name, "bass") \/ Contains(name, "808") THEN "BASS"
    ELSE IF ContainsAny(name, SnareTokens) THEN "SNARE"
    ELSE IF ContainsAny(name, ClapTokens) THEN "CLAP"
    ELSE IF ContainsAny(name, HihatTokens) THEN "HIHAT"
    ELSE IF ContainsAny(name, CrashTokens) THEN "CRASH"
    ELSE IF ContainsAny(name, TomTokens) THEN "TOM"
    ELSE IF Contains(name, "perc") THEN "FX"
    ELSE IF ContainsAny(name, FxTokens) THEN "FX"
    ELSE "UNKNOWN"

\* analyzer.classify_sample(file_path, duration, features); features is unused
classify_sample(path, dur) ==
    LET name == Lower(Basename(path)) IN
    IF Contains(name, "bpm") \/ Contains(name, "loop") \/ IsLongLoop(dur)
    THEN (IF Contains(name, "top") THEN "LOOP" ELSE "LOOP")
    ELSE IF ContainsAny(name, GuitarTokens) THEN "GUITAR"
    ELSE IF ContainsAny(name, PianoTokens) THEN "PIANO"
    ELSE IF Contains(name, "bass") \/ Contains(name, "808") THEN "BASS"
    ELSE IF Contains(name, "kick") \/ Contains(name, "bd")
         THEN (IF IsLongKick(dur) THEN "BASS" ELSE "KICK")
    ELSE IF ContainsAny(name, SnareTokens) THEN "SNARE"
    ELSE IF ContainsAny(name, ClapTokens) THEN "CLAP"
    ELSE IF ContainsAny(name, HihatTokens) THEN "HIHAT"
    ELSE IF ContainsAny(name, CrashTokens) THEN "CRASH"
    ELSE IF ContainsAny(name, TomTokens) THEN "TOM"
    ELSE IF Contains(name, "perc") THEN "FX"
    ELSE IF ContainsAny(name, FxTokens) THEN "FX"
    ELSE "UNKNOWN"

\* sorter.classify_sample(file_path, duration)
sorter_classify_sample(path, dur) ==
    LET name == Lower(Basename(path)) IN
    IF Contains(name, "bpm") \/ Contains(name, "loop") \/ dur > 4000
    THEN (IF Contains(name, "top") THEN "LOOP" ELSE "LOOP")
    ELSE IF ContainsAny(name, { "guitar", "gtr", "acoustic", "electric" }) THEN "GUITAR"
    ELSE IF ContainsAny(name, { "piano", "key", "synth", "rhodes", "organ" }) THEN "PIANO"
    ELSE IF Contains(name, "bass") \/ Contains(name, "808") THEN "BASS"
    ELSE IF Contains(name, "kick") \/ Contains(name, "bd")
         THEN (IF dur > 800 THEN "BASS" ELSE "KICK")
    ELSE IF ContainsAny(name, { "snare", "sd" }) THEN "SNARE"
    ELSE IF ContainsAny(name, { "clap", "cp" }) THEN "CLAP"
    ELSE IF ContainsAny(name, { "hat", "hh", "oh", "ch" }) THEN "HIHAT"
    ELSE IF ContainsAny(name, { "crash", "cymbal", "ride", "cy" }) THEN "CRASH"
    ELSE IF ContainsAny(name, { "tom", "tm" }) THEN "TOM"
    ELSE IF Contains(name, "perc") THEN "FX"
    ELSE IF ContainsAny(name, { "fx", "sfx", "riser", "downer", "vox", "vocal" }) THEN "FX"
    ELSE "UNKNOWN"

\* Inputs: the four names of the spec's scenario and names assembled from
\* two fragments, with an optional directory part.
ExamplePaths == { "kick_long.wav", "kick_01.wav", "house_loop_128bpm.wav",
                  "unknown_sound.wav" }

Fragments == { "kick", "bd", "bass", "808", "loop", "bpm", "guitar", "gtr", "key",
               "synth", "snare", "sd", "clap", "cp", "hat", "oh", "crash", "cy",
               "tom", "tm", "perc", "fx", "vox", "top", "zz", "KICK", "Loop", "BD",
               "Snare" }

Fragments2 == { "01", "bass", "kick", "bd", "loop", "key", "hat", "tom", "perc",
                "fx", "Crash" }

DirParts == { "", "loops/", "Kick/" }

FilePaths == ExamplePaths \cup
             { d \o a \o "_" \o b \o ".wav" : d \in DirParts, a \in Fragments, b \in Fragments2 }

\* 0.3, 0.5, 0.8, 1.0, 1.2, 4.0 and 4.5 seconds
Durations == { 300, 500, 800, 1000, 1200, 4000, 4500 }

cl_Idle ==
    /\ cl_pc = "idle"
    /\ file_path = ""
    /\ duration = 0
    /\ category = ""
    /\ sorter_category = ""

cl_Init ==
    /\ cl_pc = "call"
    /\ file_path \in FilePaths
    /\ duration \in Durations
    /\ category = ""
    /\ sorter_category = ""

\* analyzer.py:301: category = classify_sample(f, result["duration"], ...)
cl_ClassifyAnalyzer ==
    /\ cl_pc = "call"
    /\ category' = classify_sample(file_path, duration)
    /\ cl_pc' = "analyzer"
    /\ UNCHANGED <<file_path, duration, sorter_category, cl_others>>

\* sorter.py:165: category = classify_sample(item["path"], item["duration"])
cl_ClassifySorter ==
    /\ cl_pc = "analyzer"
    /\ sorter_category' = sorter_classify_sample(file_path, duration)
    /\ cl_pc' = "done"
    /\ UNCHANGED <<file_path, duration, category, cl_others>>

cl_Next == cl_ClassifyAnalyzer \/ cl_ClassifySorter

-----------------------------------------------------------------------------
(* Query Engine: GalaxyPlotWidget of ui_components.py, with utils.py        *)

\* os.path.normpath on relative POSIX paths: split at "/", drop "" and ".",
\* resolve "..", join; the empty result is "."
RECURSIVE SplitFrom(_, _, _)
SplitFrom(s, k, cur) ==
    IF k > Len(s) THEN << cur >>
    ELSE IF SubSeq(s, k, k) = "/" THEN << cur >> \o SplitFrom(s, k + 1, "")
    ELSE SplitFrom(s, k + 1, cur \o SubSeq(s, k, k))

RECURSIVE NormComps(_, _, _)
NormComps(comps, k, acc) ==
    IF k > Len(comps) THEN acc
    ELSE LET c == comps[k] IN
         IF c = "" \/ c = "." THEN NormComps(comps, k + 1, acc)
         ELSE IF c = ".." /\ Len(acc) > 0 /\ acc[Len(acc)] # ".."
              THEN NormComps(comps, k + 1, SubSeq(acc, 1, Len(acc) - 1))
         ELSE NormComps(comps, k + 1, Append(acc, c))

RECURSIVE JoinFrom(_, _)
JoinFrom(comps, k) ==
    IF k > Len(comps) THEN ""
    ELSE IF k = Len(comps) THEN comps[k]
    ELSE comps[k] \o "/" \o JoinFrom(comps, k + 1)

\* utils.normalize_path
normalize_path(path) ==
    IF path = "None" THEN "None"
    ELSE LET comps == NormComps(SplitFrom(path, 1, ""), 1, << >>) IN
         IF Len(comps) = 0 THEN "." ELSE JoinFrom(comps, 1)

\* Durations of the Query Engine are counted in units of 2^-24 s, so that the
\* float32 grid is visible: np.array(durations, dtype=np.float32) rounds to
\* the nearest float32, ties to even.
OneSecond == 2 ^ 24

\* the one-shot cutoff 2.0
OneShotCutoff == 2 * OneSecond

F32Ulp(d) ==
    IF d < 2 ^ 24 THEN 1
    ELSE CHOOSE u \in { 2 ^ k : k \in 1..6 } : d >= (2 ^ 23) * u /\ d < (2 ^ 24) * u

ToFloat32(d) == RoundHalfEven(d, F32Ulp(d)) * F32Ulp(d)

\* category_colors keys plus the three labels added for compatibility
KnownCategories == { "KICK", "SNARE", "CLAP", "HIHAT", "CRASH", "TOM", "BASS",
                     "GUITAR", "PIANO", "LOOP", "FX", "UNKNOWN" }

AllCategories == KnownCategories \cup { "TOP_LOOP", "PERC", "OTHER" }

\* Python's None for a list-valued, a set-valued and a point-valued slot
None == [ none |-> TRUE, v |-> << >> ]
NoneSet == [ none |-> TRUE, v |-> {} ]
Some(x) == [ none |-> FALSE, v |-> x ]

\* Records the database files are made of.  RecDup is RecKick found again
\* under another spelling of its folder; RecPad has a category outside the
\* known labels and a duration less than half a float32 step above 2.0.
RecKick == [ path |-> "s/kick.wav", x |-> 0, y |-> 0, duration |-> 2 * OneSecond,
             category |-> "KICK", start_time |-> 0, cluster |-> 0 ]
RecLoop == [ path |-> "s/loop.wav", x |-> 10, y |-> 0, duration |-> 3 * OneSecond,
             category |-> "LOOP", start_time |-> 1, cluster |-> 1 ]
RecPad  == [ path |-> "s/pad.wav", x |-> 20, y |-> 20,
             duration |-> 2 * OneSecond + 1, category |-> "WEIRD", start_time |-> 0, cluster |-> 2 ]
RecDup  == [ path |-> "./s/kick.wav", x |-> 0, y |-> 3, duration |-> 2 * OneSecond,
             category |-> "KICK", start_time |-> 0, cluster |-> 0 ]
RecFar  == [ path |-> "s/far.wav", x |-> 10000, y |-> 10000, duration |-> OneSecond,
             category |-> "FX", start_time |-> 0, cluster |-> 1 ]

RecordPool == { RecKick, RecLoop, RecPad, RecDup }

\* the 3-point database of the nearest-lookup scenario
ScenarioDb == << RecKick, RecLoop, RecFar >>

\* the database left by two analyzer runs over the same folder, given once as
\* "s" and once as "./s" (analyzer.py keys its cache by the raw path string)
RescanDb == << RecKick, RecDup >>

Databases ==
    UNION { [ 1..k -> RecordPool ] : k \in 0..MaxRecs } \cup { ScenarioDb, RescanDb }

\* a database file that exists but from which json.load raises
Unreadable == [ none |-> TRUE, v |-> << >>, unreadable |-> TRUE ]

\* content of a database file: missing, unreadable, or a list of records
DbFiles == { None, Unreadable } \cup { Some(db) : db \in Databases }

\* favorites.json at start-up: missing, or a list with one path as dropped
InitialFavoritesFiles == { NoneSet, Some({ "./s/kick.wav" }) }

\* paths a file drop can bring
DropPaths == { "./s/kick.wav" }

\* categories whose check box the model clicks
ToggleCategories == { "KICK" }
MainToggleCategories == { "UNKNOWN" }

\* scene positions of the cursor, and zoom factors (scene = scale * view)
Cursors == { <<9, 1>>, <<40, 0>> }
Scales == { 1, 2 }

\* default threshold of find_nearest_point, and the one of the mouse handlers
DefaultThreshold == 20
DragThreshold == 30

NoOp == [ op |-> "none" ]

SortedSeq(S) ==
    [ k \in 1..Cardinality(S) |-> CHOOSE v \in S : Cardinality({ w \in S : w < v }) = k - 1 ]

\* utils.load_json followed by `if data:` / `if not data: return`
Truthy(data) == ~data.none /\ Len(data.v) > 0
TruthySet(data) == ~data.none /\ Cardinality(data.v) > 0

\* _sync_fav_array: reset, then set the flag at path_to_index[fav]
SyncFavArray(ids, p2i, favs, old) ==
    IF Len(ids) > 0
    THEN [ k \in 1..Len(ids) |-> \E f \in favs : f \in DOMAIN p2i /\ p2i[f] = k ]
    ELSE old

\* update_plot, step 1: the boolean mask as the set of indices it selects
Mask(durs, cats, favs, oneshot, favonly, viscats) ==
    { k \in 1..Len(durs) :
        /\ oneshot => durs[k] <= OneShotCutoff
        /\ favonly => favs[k]
        /\ IF Cardinality(viscats) = 0 THEN FALSE ELSE cats[k] \in viscats }

\* update_plot: returns early on an empty corpus, else stores np.where(mask)[0]
UpdatePlot(ids, durs, cats, favs, oneshot, favonly, viscats, old) ==
    IF Len(ids) = 0 THEN old
    ELSE Some(SortedSeq(Mask(durs, cats, favs, oneshot, favonly, viscats)))

\* squared scene distance and manhattanLength between a point and the cursor
SceneDist2(pt, scene_pos, scale) ==
    (pt[1] * scale - scene_pos[1]) * (pt[1] * scale - scene_pos[1])
    + (pt[2] * scale - scene_pos[2]) * (pt[2] * scale - scene_pos[2])

PixelDist(pt, scene_pos, scale) ==
    Abs(pt[1] * scale - scene_pos[1]) + Abs(pt[2] * scale - scene_pos[2])

\* mutant of find_nearest_point: the search runs over all points
find_nearest_point_AllPoints(vis, pos, scene_pos, scale, threshold) ==
    IF Len(pos) = 0 THEN 0
    ELSE LET k == CHOOSE a \in 1..Len(pos) :
                      /\ \A b \in 1..Len(pos) :
                             SceneDist2(pos[a], scene_pos, scale)
                                 <= SceneDist2(pos[b], scene_pos, scale)
                      /\ \A b \in 1..(a - 1) :
                             SceneDist2(pos[b], scene_pos, scale)
                                 > SceneDist2(pos[a], scene_pos, scale)
         IN  IF PixelDist(pos[k], scene_pos, scale) < threshold THEN k ELSE 0

\* find_nearest_point: the index of the matched record, 0 for None.
\* np.argmin returns the first minimum; the view is an aspect-locked zoom.
find_nearest_point(vis, pos, scene_pos, scale, threshold) ==
    IF vis.none THEN 0
    ELSE IF Len(vis.v) = 0 THEN 0
    ELSE LET k == CHOOSE a \in 1..Len(vis.v) :
                      /\ \A b \in 1..Len(vis.v) :
                             SceneDist2(pos[vis.v[a]], scene_pos, scale)
                                 <= SceneDist2(pos[vis.v[b]], scene_pos, scale)
                      /\ \A b \in 1..(a - 1) :
                             SceneDist2(pos[vis.v[b]], scene_pos, scale)
                                 > SceneDist2(pos[vis.v[a]], scene_pos, scale)
         IN  IF PixelDist(pos[vis.v[k]], scene_pos, scale) < threshold
             THEN vis.v[k] ELSE 0

\* squared data-space distance
Dist2(pt, cur) ==
    (pt[1] - cur[1]) * (pt[1] - cur[1]) + (pt[2] - cur[2]) * (pt[2] - cur[2])

\* np.argsort(dists): every order that sorts by distance (ties in any order)
ArgSorts(pos, cur) ==
    { perm \in [ 1..Len(pos) -> 1..Len(pos) ] :
        /\ \A a, b \in 1..Len(pos) : a # b => perm[a] # perm[b]
        /\ \A a, b \in 1..Len(pos) :
               a < b => Dist2(pos[perm[a]], cur) <= Dist2(pos[perm[b]], cur) }

\* argsort(dists)[1:51]: ranks 1..NeighborCount of the order (rank 0 skipped)
NearestIndices(perm) ==
    { perm[r] : r \in 2..Min2(Len(perm), NeighborCount + 1) }

qe_Idle ==
    /\ qe_pc = "idle"
    /\ ids_arr = << >>
    /\ pos_arr = << >>
    /\ duration_arr = << >>
    /\ category_arr = << >>
    /\ is_fav_arr = << >>
    /\ path_to_index = << >>
    /\ start_times = << >>
    /\ favorites = {}
    /\ favorites_file = NoneSet
    /\ filter_oneshot = FALSE
    /\ filter_favorites_only = FALSE
    /\ visible_categories = {}
    /\ visible_indices = None
    /\ current_pos = None
    /\ last_played_path = "None"
    /\ qe_last = NoOp
    /\ points_data = << >>

\* __init__ (lines 92-146), which ends with load_favorites()
qe_Init ==
    /\ qe_pc = "run"
    /\ ids_arr = << >>
    /\ pos_arr = << >>
    /\ duration_arr = << >>
    /\ category_arr = << >>
    /\ is_fav_arr = << >>
    /\ path_to_index = << >>
    /\ start_times = << >>
    /\ favorites_file \in InitialFavoritesFiles
    /\ favorites = IF TruthySet(favorites_file)
                   THEN { normalize_path(f) : f \in favorites_file.v } ELSE {}
    /\ filter_oneshot = FALSE
    /\ filter_favorites_only = FALSE
    /\ visible_categories = AllCategories
    /\ visible_indices = None
    /\ current_pos = None
    /\ last_played_path = "None"
    /\ qe_last = NoOp
    /\ points_data = << >>

\* load_data(json_path) of ui_components.py; the file holds `file`
qe_Load(file) ==
    /\ qe_pc = "run"
    /\   IF ~Truthy(file)
         THEN UNCHANGED <<ids_arr, pos_arr, duration_arr, category_arr, is_fav_arr,
                          path_to_index, start_times, visible_indices, points_data>>
         ELSE LET db   == file.v
                  n    == Len(db)
                  ids  == [ k \in 1..n |-> normalize_path(db[k].path) ]
                  p2i  == [ q \in { ids[k] : k \in 1..n } |->
                              CHOOSE k \in 1..n :
                                  ids[k] = q /\ \A j \in 1..n : ids[j] = q => j <= k ]
                  durs == [ k \in 1..n |-> ToFloat32(db[k].duration) ]
                  cats == [ k \in 1..n |-> db[k].category ]
                  favs == SyncFavArray(ids, p2i, favorites, [ k \in 1..n |-> FALSE ])
              IN  /\ points_data' = db
                  /\ ids_arr' = ids
                  /\ pos_arr' = [ k \in 1..n |-> << db[k].x, db[k].y >> ]
                  /\ duration_arr' = durs
                  /\ category_arr' = cats
                  /\ path_to_index' = p2i
                  /\ start_times' = [ q \in DOMAIN p2i |-> db[p2i[q]].start_time ]
                  /\ is_fav_arr' = favs
                  /\ visible_indices' =
                         UpdatePlot(ids, durs, cats, favs, filter_oneshot,
                                    filter_favorites_only, visible_categories,
                                    visible_indices)
    /\ qe_last' = NoOp
    /\ UNCHANGED <<qe_pc, favorites, favorites_file, filter_oneshot,
                   filter_favorites_only, visible_categories, current_pos,
                   last_played_path, qe_others>>

\* load_data is called with any database file
qe_LoadData == \E file \in DbFiles : qe_Load(file)

\* set_filter_oneshot(enabled)
qe_SetFilterOneshot ==
    /\ qe_pc = "run"
    /\ \E enabled \in BOOLEAN :
         /\ filter_oneshot' = enabled
         /\ visible_indices' =
                IF filter_oneshot # enabled
                THEN UpdatePlot(ids_arr, duration_arr, category_arr, is_fav_arr, enabled,
                                filter_favorites_only, visible_categories, visible_indices)
                ELSE visible_indices
    /\ qe_last' = NoOp
    /\ UNCHANGED <<qe_pc, ids_arr, pos_arr, duration_arr, category_arr, is_fav_arr,
                   path_to_index, start_times, favorites, favorites_file,
                   filter_favorites_only, visible_categories, current_pos,
                   last_played_path, points_data, qe_others>>

\* set_filter_favorites(enabled)
qe_SetFilterFavorites ==
    /\ qe_pc = "run"
    /\ \E enabled \in BOOLEAN :
         /\ filter_favorites_only' = enabled
         /\ visible_indices' =
                IF filter_favorites_only # enabled
                THEN UpdatePlot(ids_arr, duration_arr, category_arr, is_fav_arr,
                                filter_oneshot, enabled, visible_categories,
                                visible_indices)
                ELSE visible_indices
    /\ qe_last' = NoOp
    /\ UNCHANGED <<qe_pc, ids_arr, pos_arr, duration_arr, category_arr, is_fav_arr,
                   path_to_index, start_times, favorites, favorites_file,
                   filter_oneshot, visible_categories, current_pos,
                   last_played_path, points_data, qe_others>>

\* set_category_visibility(category, visible)
qe_SetCategoryVisibility ==
    /\ qe_pc = "run"
    /\ \E c \in ToggleCategories, visible \in BOOLEAN :
         LET changed == IF visible THEN c \notin visible_categories
                        ELSE c \in visible_categories
             cats    == IF visible THEN visible_categories \cup { c }
                        ELSE visible_categories \ { c }
         IN  /\ visible_categories' = cats
             /\ visible_indices' =
                    IF changed
                    THEN UpdatePlot(ids_arr, duration_arr, category_arr, is_fav_arr,
                                    filter_oneshot, filter_favorites_only, cats,
                                    visible_indices)
                    ELSE visible_indices
    /\ qe_last' = NoOp
    /\ UNCHANGED <<qe_pc, ids_arr, pos_arr, duration_arr, category_arr, is_fav_arr,
                   path_to_index, start_times, favorites, favorites_file,
                   filter_oneshot, filter_favorites_only, current_pos,
                   last_played_path, points_data, qe_others>>

\* set_all_categories_visibility(visible)
qe_SetAllCategoriesVisibility ==
    /\ qe_pc = "run"
    /\ \E visible \in BOOLEAN :
         LET cats == IF visible THEN AllCategories ELSE {} IN
         /\ visible_categories' = cats
         /\ visible_indices' =
                UpdatePlot(ids_arr, duration_arr, category_arr, is_fav_arr,
                           filter_oneshot, filter_favorites_only, cats, visible_indices)
    /\ qe_last' = NoOp
    /\ UNCHANGED <<qe_pc, ids_arr, pos_arr, duration_arr, category_arr, is_fav_arr,
                   path_to_index, start_times, favorites, favorites_file,
                   filter_oneshot, filter_favorites_only, current_pos,
                   last_played_path, points_data, qe_others>>

\* mutant of AddFavorite: the set is changed in memory only
AddFavorite_NoSave(path) ==
    IF path \notin favorites
    THEN LET favs == IF path \in DOMAIN path_to_index
                     THEN [is_fav_arr EXCEPT ![path_to_index[path]] = TRUE]
                     ELSE is_fav_arr
         IN  /\ favorites' = favorites \cup { path }
             /\ is_fav_arr' = favs
             /\ UNCHANGED favorites_file
             /\ visible_indices' =
                    UpdatePlot(ids_arr, duration_arr, category_arr, favs, filter_oneshot,
                               filter_favorites_only, visible_categories, visible_indices)
    ELSE UNCHANGED <<favorites, is_fav_arr, favorites_file, visible_indices>>

\* add_favorite(path) after normalize_path: flag patched at path_to_index[path],
\* save_favorites(), update_plot()
AddFavorite(path) ==
    IF path \notin favorites
    THEN LET favs == IF path \in DOMAIN path_to_index
                     THEN [is_fav_arr EXCEPT ![path_to_index[path]] = TRUE]
                     ELSE is_fav_arr
         IN  /\ favorites' = favorites \cup { path }
             /\ is_fav_arr' = favs
             /\ favorites_file' = Some(favorites \cup { path })
             /\ visible_indices' =
                    UpdatePlot(ids_arr, duration_arr, category_arr, favs, filter_oneshot,
                               filter_favorites_only, visible_categories, visible_indices)
    ELSE UNCHANGED <<favorites, is_fav_arr, favorites_file, visible_indices>>

\* remove_favorite(path) after normalize_path
RemoveFavorite(path) ==
    IF path \in favorites
    THEN LET favs == IF path \in DOMAIN path_to_index
                     THEN [is_fav_arr EXCEPT ![path_to_index[path]] = FALSE]
                     ELSE is_fav_arr
         IN  /\ favorites' = favorites \ { path }
             /\ is_fav_arr' = favs
             /\ favorites_file' = Some(favorites \ { path })
             /\ visible_indices' =
                    UpdatePlot(ids_arr, duration_arr, category_arr, favs, filter_oneshot,
                               filter_favorites_only, visible_categories, visible_indices)
    ELSE UNCHANGED <<favorites, is_fav_arr, favorites_file, visible_indices>>

\* add_favorite(path) for a dropped file
qe_AddFavorite ==
    /\ qe_pc = "run"
    /\ \E path \in DropPaths : AddFavorite(normalize_path(path))
    /\ qe_last' = NoOp
    /\ UNCHANGED <<qe_pc, ids_arr, pos_arr, duration_arr, category_arr, path_to_index,
                   start_times, filter_oneshot, filter_favorites_only,
                   visible_categories, current_pos, last_played_path, points_data, qe_others>>

\* remove_favorite(path) from the favourites list
qe_RemoveFavorite ==
    /\ qe_pc = "run"
    /\ \E path \in favorites : RemoveFavorite(normalize_path(path))
    /\ qe_last' = NoOp
    /\ UNCHANGED <<qe_pc, ids_arr, pos_arr, duration_arr, category_arr, path_to_index,
                   start_times, filter_oneshot, filter_favorites_only,
                   visible_categories, current_pos, last_played_path, points_data, qe_others>>

\* toggle_favorite()
qe_ToggleFavorite ==
    /\ qe_pc = "run"
    /\ IF last_played_path = "None"
       THEN UNCHANGED <<favorites, is_fav_arr, favorites_file, visible_indices>>
       ELSE IF last_played_path \in favorites
            THEN RemoveFavorite(normalize_path(last_played_path))
            ELSE AddFavorite(normalize_path(last_played_path))
    /\ qe_last' = NoOp
    /\ UNCHANGED <<qe_pc, ids_arr, pos_arr, duration_arr, category_arr, path_to_index,
                   start_times, filter_oneshot, filter_favorites_only,
                   visible_categories, current_pos, last_played_path, points_data, qe_others>>

\* on_scene_clicked: find_nearest_point(scenePos), then select_point(path)
qe_SceneClicked ==
    /\ qe_pc = "run"
    /\ \E scene_pos \in Cursors, scale \in Scales :
         LET hit  == find_nearest_point(visible_indices, pos_arr, scene_pos, scale,
                                        DefaultThreshold)
             path == IF hit = 0 THEN "None" ELSE normalize_path(ids_arr[hit])
         IN  /\ qe_last' = [ op |-> "nearest", scene_pos |-> scene_pos, scale |-> scale,
                             threshold |-> DefaultThreshold, result |-> hit ]
             /\ IF hit # 0 /\ path \in DOMAIN path_to_index
                THEN /\ last_played_path' = path
                     /\ current_pos' = Some(pos_arr[path_to_index[path]])
                ELSE UNCHANGED <<last_played_path, current_pos>>
    /\ UNCHANGED <<qe_pc, ids_arr, pos_arr, duration_arr, category_arr, is_fav_arr,
                   path_to_index, start_times, favorites, favorites_file,
                   filter_oneshot, filter_favorites_only, visible_categories,
                   visible_indices, points_data, qe_others>>

\* mousePressEvent, right button: find_nearest_point(..., threshold=30)
qe_RightPress ==
    /\ qe_pc = "run"
    /\ \E scene_pos \in Cursors, scale \in Scales :
         LET hit == find_nearest_point(visible_indices, pos_arr, scene_pos, scale,
                                       DragThreshold)
         IN  /\ qe_last' = [ op |-> "nearest", scene_pos |-> scene_pos, scale |-> scale,
                             threshold |-> DragThreshold, result |-> hit ]
             /\ IF hit # 0
                THEN /\ last_played_path' = ids_arr[hit]
                     /\ current_pos' = Some(pos_arr[hit])
                ELSE UNCHANGED <<last_played_path, current_pos>>
    /\ UNCHANGED <<qe_pc, ids_arr, pos_arr, duration_arr, category_arr, is_fav_arr,
                   path_to_index, start_times, favorites, favorites_file,
                   filter_oneshot, filter_favorites_only, visible_categories,
                   visible_indices, points_data, qe_others>>

\* jump_to_random_neighbor: np.random.choice over argsort(dists)[1:51]
qe_JumpToRandomNeighbor ==
    /\ qe_pc = "run"
    /\ IF current_pos.none \/ Len(pos_arr) = 0
       THEN /\ qe_last' = [ op |-> "jump", from |-> current_pos, target |-> 0 ]
            /\ UNCHANGED current_pos
       ELSE \E perm \in ArgSorts(pos_arr, current_pos.v) :
              IF NearestIndices(perm) = {}
              THEN /\ qe_last' = [ op |-> "jump", from |-> current_pos, target |-> 0 ]
                   /\ UNCHANGED current_pos
              ELSE \E target \in NearestIndices(perm) :
                     /\ qe_last' = [ op |-> "jump", from |-> current_pos,
                                     target |-> target ]
                     /\ current_pos' = Some(pos_arr[target])
    /\ UNCHANGED <<qe_pc, ids_arr, pos_arr, duration_arr, category_arr, is_fav_arr,
                   path_to_index, start_times, favorites, favorites_file,
                   filter_oneshot, filter_favorites_only, visible_categories,
                   visible_indices, last_played_path, points_data, qe_others>>

qe_Next ==
    \/ qe_LoadData
    \/ qe_SetFilterOneshot
    \/ qe_SetFilterFavorites
    \/ qe_SetCategoryVisibility
    \/ qe_SetAllCategoriesVisibility
    \/ qe_AddFavorite
    \/ qe_RemoveFavorite
    \/ qe_ToggleFavorite
    \/ qe_SceneClicked
    \/ qe_RightPress
    \/ qe_JumpToRandomNeighbor

-----------------------------------------------------------------------------
(* Query Engine: GalaxyPlotWidget of main.py                                *)

\* update_plot, the three `continue` tests of the loop over points_data
mn_Visible(item, favs, oneshot, favonly, viscats) ==
    /\ ~(favonly /\ item.path \notin favs)
    /\ ~(oneshot /\ item.duration > OneShotCutoff)
    /\ \/ item.category \in viscats
       \/ "UNKNOWN" \in viscats /\ item.category \notin AllCategories

\* update_plot: visible_points_data
mn_UpdatePlot(points, favs, oneshot, favonly, viscats) ==
    SortedSeq({ k \in 1..Len(points) :
                  mn_Visible(points[k], favs, oneshot, favonly, viscats) })

\* update_plot: visible_coords_cache
mn_CoordsCache(points, visible) ==
    IF Len(visible) > 0
    THEN Some([ k \in 1..Len(visible) |-> << points[visible[k]].x, points[visible[k]].y >> ])
    ELSE None

\* find_nearest_point of main.py: position in visible_points_data, 0 for None
mn_find_nearest_point(cache, scene_pos, scale, threshold) ==
    IF cache.none THEN 0
    ELSE IF Len(cache.v) = 0 THEN 0
    ELSE LET k == CHOOSE a \in 1..Len(cache.v) :
                      /\ \A b \in 1..Len(cache.v) :
                             SceneDist2(cache.v[a], scene_pos, scale)
                                 <= SceneDist2(cache.v[b], scene_pos, scale)
                      /\ \A b \in 1..(a - 1) :
                             SceneDist2(cache.v[b], scene_pos, scale)
                                 > SceneDist2(cache.v[a], scene_pos, scale)
         IN  IF PixelDist(cache.v[k], scene_pos, scale) < threshold THEN k ELSE 0

mn_Idle ==
    /\ mn_pc = "idle"
    /\ mn_points_data = << >>
    /\ mn_coords_array = None
    /\ mn_favorites = {}
    /\ mn_favorites_file = NoneSet
    /\ mn_filter_oneshot = FALSE
    /\ mn_filter_favorites_only = FALSE
    /\ mn_visible_categories = {}
    /\ mn_visible_points_data = << >>
    /\ mn_visible_coords_cache = None
    /\ mn_current_pos = None
    /\ mn_last_played_path = "None"
    /\ mn_last = NoOp

\* GalaxyPlotWidget.__init__; load_favorites keeps the strings as stored
mn_Init ==
    /\ mn_pc = "init"
    /\ mn_points_data = << >>
    /\ mn_coords_array = None
    /\ mn_favorites_file \in InitialFavoritesFiles
    /\ mn_favorites = IF mn_favorites_file.none THEN {} ELSE mn_favorites_file.v
    /\ mn_filter_oneshot = FALSE
    /\ mn_filter_favorites_only = FALSE
    /\ mn_visible_categories = AllCategories
    /\ mn_visible_points_data = << >>
    /\ mn_visible_coords_cache = None
    /\ mn_current_pos = None
    /\ mn_last_played_path = "None"
    /\ mn_last = NoOp

\* the part of update_plot every caller shares
mn_Replot(points, favs, oneshot, favonly, viscats) ==
    LET visible == mn_UpdatePlot(points, favs, oneshot, favonly, viscats) IN
    /\ mn_visible_points_data' = visible
    /\ mn_visible_coords_cache' = mn_CoordsCache(points, visible)

\* load_data("database.json"), called once by MainWindow.__init__
mn_LoadData ==
    /\ mn_pc = "init"
    /\ \E file \in DbFiles :
         IF file = Unreadable
         THEN \* json.load raises inside MainWindow.__init__; nothing catches it
              /\ mn_pc' = "raised"
              /\ UNCHANGED <<mn_points_data, mn_coords_array, mn_visible_points_data,
                             mn_visible_coords_cache>>
         ELSE IF file.none
         THEN /\ mn_pc' = "run"
              /\ UNCHANGED <<mn_points_data, mn_coords_array, mn_visible_points_data,
                             mn_visible_coords_cache>>
         ELSE /\ mn_pc' = "run"
              /\ mn_points_data' = file.v
              /\ mn_coords_array' =
                     Some([ k \in 1..Len(file.v) |-> << file.v[k].x, file.v[k].y >> ])
              /\ mn_Replot(file.v, mn_favorites, mn_filter_oneshot,
                           mn_filter_favorites_only, mn_visible_categories)
    /\ mn_last' = NoOp
    /\ UNCHANGED <<mn_favorites, mn_favorites_file, mn_filter_oneshot,
                   mn_filter_favorites_only, mn_visible_categories, mn_current_pos,
                   mn_last_played_path, mn_others>>

\* set_filter_oneshot(enabled) of main.py
mn_SetFilterOneshot ==
    /\ mn_pc = "run"
    /\ \E enabled \in BOOLEAN :
         /\ mn_filter_oneshot' = enabled
         /\ mn_Replot(mn_points_data, mn_favorites, enabled,
                      mn_filter_favorites_only, mn_visible_categories)
    /\ mn_last' = NoOp
    /\ UNCHANGED <<mn_pc, mn_points_data, mn_coords_array, mn_favorites,
                   mn_favorites_file, mn_filter_favorites_only, mn_visible_categories,
                   mn_current_pos, mn_last_played_path, mn_others>>

\* set_filter_favorites(enabled) of main.py
mn_SetFilterFavorites ==
    /\ mn_pc = "run"
    /\ \E enabled \in BOOLEAN :
         /\ mn_filter_favorites_only' = enabled
         /\ mn_Replot(mn_points_data, mn_favorites, mn_filter_oneshot, enabled,
                      mn_visible_categories)
    /\ mn_last' = NoOp
    /\ UNCHANGED <<mn_pc, mn_points_data, mn_coords_array, mn_favorites,
                   mn_favorites_file, mn_filter_oneshot, mn_visible_categories,
                   mn_current_pos, mn_last_played_path, mn_others>>

\* set_category_visibility(category, visible) of main.py
mn_SetCategoryVisibility ==
    /\ mn_pc = "run"
    /\ \E c \in MainToggleCategories, visible \in BOOLEAN :
         LET cats == IF visible THEN mn_visible_categories \cup { c }
                     ELSE mn_visible_categories \ { c }
         IN  /\ mn_visible_categories' = cats
             /\ mn_Replot(mn_points_data, mn_favorites, mn_filter_oneshot,
                          mn_filter_favorites_only, cats)
    /\ mn_last' = NoOp
    /\ UNCHANGED <<mn_pc, mn_points_data, mn_coords_array, mn_favorites,
                   mn_favorites_file, mn_filter_oneshot, mn_filter_favorites_only,
                   mn_current_pos, mn_last_played_path, mn_others>>

\* set_all_categories_visibility(visible) of main.py
mn_SetAllCategoriesVisibility ==
    /\ mn_pc = "run"
    /\ \E visible \in BOOLEAN :
         LET cats == IF visible THEN AllCategories ELSE {} IN
         /\ mn_visible_categories' = cats
         /\ mn_Replot(mn_points_data, mn_favorites, mn_filter_oneshot,
                      mn_filter_favorites_only, cats)
    /\ mn_last' = NoOp
    /\ UNCHANGED <<mn_pc, mn_points_data, mn_coords_array, mn_favorites,
                   mn_favorites_file, mn_filter_oneshot, mn_filter_favorites_only,
                   mn_current_pos, mn_last_played_path, mn_others>>

\* add_favorite(path) of main.py: the path is stored as given
mn_AddFavoritePath(path) ==
    IF path \notin mn_favorites
    THEN /\ mn_favorites' = mn_favorites \cup { path }
         /\ mn_favorites_file' = Some(mn_favorites \cup { path })
         /\ mn_Replot(mn_points_data, mn_favorites \cup { path }, mn_filter_oneshot,
                      mn_filter_favorites_only, mn_visible_categories)
    ELSE UNCHANGED <<mn_favorites, mn_favorites_file, mn_visible_points_data,
                     mn_visible_coords_cache>>

\* remove_favorite(path) of main.py
mn_RemoveFavoritePath(path) ==
    IF path \in mn_favorites
    THEN /\ mn_favorites' = mn_favorites \ { path }
         /\ mn_favorites_file' = Some(mn_favorites \ { path })
         /\ mn_Replot(mn_points_data, mn_favorites \ { path }, mn_filter_oneshot,
                      mn_filter_favorites_only, mn_visible_categories)
    ELSE UNCHANGED <<mn_favorites, mn_favorites_file, mn_visible_points_data,
                     mn_visible_coords_cache>>

\* on_files_dropped: add_favorite(path) for a dropped file
mn_AddFavorite ==
    /\ mn_pc = "run"
    /\ \E path \in DropPaths : mn_AddFavoritePath(path)
    /\ mn_last' = NoOp
    /\ UNCHANGED <<mn_pc, mn_points_data, mn_coords_array, mn_filter_oneshot,
                   mn_filter_favorites_only, mn_visible_categories, mn_current_pos,
                   mn_last_played_path, mn_others>>

\* toggle_favorite() of main.py
mn_ToggleFavorite ==
    /\ mn_pc = "run"
    /\ IF mn_last_played_path = "None"
       THEN UNCHANGED <<mn_favorites, mn_favorites_file, mn_visible_points_data,
                        mn_visible_coords_cache>>
       ELSE IF mn_last_played_path \in mn_favorites
            THEN mn_RemoveFavoritePath(mn_last_played_path)
            ELSE mn_AddFavoritePath(mn_last_played_path)
    /\ mn_last' = NoOp
    /\ UNCHANGED <<mn_pc, mn_points_data, mn_coords_array, mn_filter_oneshot,
                   mn_filter_favorites_only, mn_visible_categories, mn_current_pos,
                   mn_last_played_path, mn_others>>

\* on_scene_clicked of main.py: find_nearest_point(scene_pos), update_history
mn_SceneClicked ==
    /\ mn_pc = "run"
    /\ \E scene_pos \in Cursors, scale \in Scales :
         LET hit == mn_find_nearest_point(mn_visible_coords_cache, scene_pos, scale,
                                          DefaultThreshold)
         IN  /\ mn_last' = [ op |-> "nearest", scene_pos |-> scene_pos, scale |-> scale,
                             threshold |-> DefaultThreshold,
                             result |-> IF hit = 0 THEN 0
                                        ELSE mn_visible_points_data[hit] ]
             /\ IF hit # 0
                THEN /\ mn_last_played_path' =
                            mn_points_data[mn_visible_points_data[hit]].path
                     /\ mn_current_pos' = Some(mn_visible_coords_cache.v[hit])
                ELSE UNCHANGED <<mn_last_played_path, mn_current_pos>>
    /\ UNCHANGED <<mn_pc, mn_points_data, mn_coords_array, mn_favorites,
                   mn_favorites_file, mn_filter_oneshot, mn_filter_favorites_only,
                   mn_visible_categories, mn_visible_points_data,
                   mn_visible_coords_cache, mn_others>>

\* jump_to_random_neighbor of main.py
mn_JumpToRandomNeighbor ==
    /\ mn_pc = "run"
    /\ IF mn_current_pos.none \/ mn_coords_array.none
       THEN /\ mn_last' = [ op |-> "jump", from |-> mn_current_pos, target |-> 0 ]
            /\ UNCHANGED mn_current_pos
       ELSE \E perm \in ArgSorts(mn_coords_array.v, mn_current_pos.v) :
              IF NearestIndices(perm) = {}
              THEN /\ mn_last' = [ op |-> "jump", from |-> mn_current_pos,
                                   target |-> 0 ]
                   /\ UNCHANGED mn_current_pos
              ELSE \E target \in NearestIndices(perm) :
                     /\ mn_last' = [ op |-> "jump", from |-> mn_current_pos,
                                     target |-> target ]
                     /\ mn_current_pos' = Some(<< mn_points_data[target].x,
                                                  mn_points_data[target].y >>)
    /\ UNCHANGED <<mn_pc, mn_points_data, mn_coords_array, mn_favorites,
                   mn_favorites_file, mn_filter_oneshot, mn_filter_favorites_only,
                   mn_visible_categories, mn_visible_points_data,
                   mn_visible_coords_cache, mn_last_played_path, mn_others>>

mn_Next ==
    \/ mn_LoadData
    \/ mn_SetFilterOneshot
    \/ mn_SetFilterFavorites
    \/ mn_SetCategoryVisibility
    \/ mn_SetAllCategoriesVisibility
    \/ mn_AddFavorite
    \/ mn_ToggleFavorite
    \/ mn_SceneClicked
    \/ mn_JumpToRandomNeighbor

-----------------------------------------------------------------------------
(* Pipeline: analyze_samples of analyzer.py and main of extractor.py        *)

\* the paths of the model in sorted() order
PathOrder == << "./s/a.wav", "s/a.wav", "s/b.wav", "s/c.wav", "s/d.wav" >>

Paths == { PathOrder[k] : k \in 1..MaxPaths }

PathRank(f) == CHOOSE k \in 1..Len(PathOrder) : PathOrder[k] = f

\* the spellings under which the sample directory is given to a run, and
\* os.path.join(root, file) of scan_directory: the path starts with root_dir
ScanRoots == { "s", "./s" }

UnderRoot(f, root_dir) ==
    Len(f) > Len(root_dir) /\ SubSeq(f, 1, Len(root_dir) + 1) = root_dir \o "/"

\* mutant of SortedPaths: the working set in descending order
SortedPaths_Descending(S) ==
    [ k \in 1..Cardinality(S) |->
        CHOOSE f \in S : Cardinality({ g \in S : PathRank(g) > PathRank(f) }) = k - 1 ]

\* sorted(list(S))
SortedPaths(S) ==
    [ k \in 1..Cardinality(S) |->
        CHOOSE f \in S : Cardinality({ g \in S : PathRank(g) < PathRank(f) }) = k - 1 ]

\* every order os.walk may list the files in
WalkOrders(S) ==
    { q \in [ 1..Cardinality(S) -> S ] : \A a, b \in 1..Cardinality(S) : a # b => q[a] # q[b] }

\* state of an entry of the old database: no entry, an entry without the
\* "features" key, features that np.array accepts, features on which it raises
EntryStates == { "none", "absent", "ok", "bad" }

\* `f in existing_data`
InExisting(f) == existing_data[f] # "none"

\* a value computed for, or restored from the entry of, path f: a feature
\* vector or a metadata dict
Entry(src, f) == [ src |-> src, of |-> f ]

\* mutant of CacheUsable: a file of this scan may be served from the cache
CacheUsable_IgnoresScan(f, is_new_scan) ==
    InExisting(f) /\ existing_data[f] # "absent"

\* the condition of the cache branch (analyzer.py:273)
CacheUsable(f, is_new_scan) ==
    ~is_new_scan /\ InExisting(f) /\ existing_data[f] # "absent"

pl_Idle ==
    /\ pl_pc = "idle"
    /\ pl_prog = "none"
    /\ existing_data = << >>
    /\ on_disk = {}
    /\ new_files = {}
    /\ all_paths = << >>
    /\ pl_i = 0
    /\ valid_files = << >>
    /\ feature_list = << >>
    /\ metadata_list = << >>
    /\ extracted = {}
    /\ output_file = None
    /\ pl_reduced = "no"

\* the old database / pickle has been read and the folder scanned.  The pickle
\* of extractor.py holds full entries only; sorter.py reads that pickle and
\* neither scans nor looks at the disk.
pl_Init ==
    /\ pl_pc = "start"
    /\ pl_prog \in { "analyzer", "extractor", "sorter" }
    /\ existing_data \in [ Paths -> EntryStates ]
    /\ pl_prog # "analyzer" => \A f \in Paths : existing_data[f] \in { "none", "ok" }
    /\ on_disk \in SUBSET Paths
    /\ \A f, g \in Paths : normalize_path(f) = normalize_path(g) => (f \in on_disk <=> g \in on_disk)
    /\ new_files \in SUBSET on_disk
    /\ \E root_dir \in ScanRoots : \A f \in new_files : UnderRoot(f, root_dir)
    /\ pl_prog = "sorter" => on_disk = {}
    /\ all_paths = << >>
    /\ pl_i = 0
    /\ valid_files = << >>
    /\ feature_list = << >>
    /\ metadata_list = << >>
    /\ extracted = {}
    /\ output_file = None
    /\ pl_reduced = "no"

\* analyzer.py:253-254, the working set; extractor.py:100, the scanned files
pl_Start ==
    /\ pl_pc = "start"
    /\ pl_prog # "sorter"
    /\ pl_pc' = "loop"
    /\ pl_i' = 1
    /\ IF pl_prog = "analyzer"
       THEN all_paths' = SortedPaths({ f \in Paths : InExisting(f) } \cup new_files)
       ELSE all_paths' \in WalkOrders(new_files)
    /\ UNCHANGED <<pl_prog, existing_data, on_disk, new_files, valid_files,
                   feature_list, metadata_list, extracted, output_file, pl_reduced, pl_others>>

\* one iteration of the loop of analyze_samples (analyzer.py:264-310)
pl_AnalyzeStep ==
    /\ pl_pc = "loop"
    /\ pl_prog = "analyzer"
    /\ pl_i <= Len(all_paths)
    /\ LET f        == all_paths[pl_i]
           scanned  == f \in new_files
           cached   == CacheUsable(f, scanned) /\ existing_data[f] = "ok"
           \* is_new_scan after the cache branch: set by its except clause
           is_new   == scanned \/ (CacheUsable(f, scanned) /\ existing_data[f] = "bad")
           analyse  == is_new \/ ~InExisting(f) \/ existing_data[f] = "absent"
       IN  \E result_ok \in BOOLEAN :
             LET call == analyse /\ f \in on_disk
                 vf1  == IF cached THEN Append(valid_files, f) ELSE valid_files
                 fl1  == IF cached THEN Append(feature_list, Entry("cache", f))
                         ELSE feature_list
                 ml1  == IF cached THEN Append(metadata_list, Entry("cache", f))
                         ELSE metadata_list
             IN  /\ extracted' = IF call THEN extracted \cup { f } ELSE extracted
                 /\ valid_files' = IF call /\ result_ok THEN Append(vf1, f) ELSE vf1
                 /\ feature_list' =
                        IF call /\ result_ok THEN Append(fl1, Entry("extract", f)) ELSE fl1
                 /\ metadata_list' =
                        IF call /\ result_ok THEN Append(ml1, Entry("extract", f)) ELSE ml1
    /\ pl_i' = pl_i + 1
    /\ UNCHANGED <<pl_pc, pl_prog, existing_data, on_disk, new_files, all_paths,
                   output_file, pl_reduced, pl_others>>

\* sorter.main up to the export loop (sorter.py:101-178): the records of the
\* pickle, in its order, each with the features stored there
pl_SorterLoad ==
    /\ pl_pc = "start"
    /\ pl_prog = "sorter"
    /\ pl_pc' = "loop"
    /\ \E raw_data \in WalkOrders({ f \in Paths : InExisting(f) }) :
         /\ all_paths' = raw_data
         /\ valid_files' = raw_data
         /\ feature_list' = [ k \in 1..Len(raw_data) |-> Entry("pickle", raw_data[k]) ]
         /\ pl_i' = Len(raw_data) + 1
    /\ UNCHANGED <<pl_prog, existing_data, on_disk, new_files, metadata_list, extracted,
                   output_file, pl_reduced, pl_others>>

\* the collection the run is about to write
pl_OutputData ==
    [ k \in 1..Len(valid_files) |->
        [ path     |-> valid_files[k],
          features |-> feature_list[k],
          meta     |-> IF pl_prog = "analyzer" THEN metadata_list[k]
                       ELSE Entry(feature_list[k].src, valid_files[k]) ] ]

\* after the loop: return without writing when nothing is valid (analyzer.py:
\* 312-314, sorter.py:105-106).  Else the embedding: analyzer.py skips t-SNE
\* for fewer than 2 samples (:329-331), sorter.py has no such branch (:133-146).
\* TSNE.fit_transform on a single sample is outside this repository: it
\* raises or returns, as the installed scikit-learn decides; with 2 or more
\* samples it returns.  Then place, cluster, build output_data and
\* open(output_file, 'w'), which truncates the database file
\* (analyzer.py:349-373, sorter.py:149-180)
pl_AnalyzeWrite ==
    /\ pl_pc = "loop"
    /\ pl_prog \in { "analyzer", "sorter" }
    /\ pl_i > Len(all_paths)
    /\ IF Len(feature_list) = 0
       THEN /\ pl_pc' = "done"
            /\ UNCHANGED <<output_file, pl_reduced>>
       ELSE LET n_samples == Len(feature_list)
                skip      == pl_prog = "analyzer" /\ n_samples < 2
            IN  /\ pl_reduced' = IF skip THEN "skipped" ELSE "tsne"
                /\ \E tsne_returns \in BOOLEAN :
                     /\ n_samples >= 2 => tsne_returns
                     /\ skip => tsne_returns
                     /\ IF tsne_returns
                        THEN /\ pl_pc' = "write"
                             /\ output_file' = Some(<< >>)
                        ELSE /\ pl_pc' = "raised"
                             /\ UNCHANGED output_file
    /\ UNCHANGED <<pl_prog, existing_data, on_disk, new_files, all_paths, pl_i,
                   valid_files, feature_list, metadata_list, extracted, pl_others>>

\* json.dump(output_data, f): the encoder hands the document to f.write piece
\* by piece (analyzer.py:373, sorter.py:181); one step per record
pl_DumpRecord ==
    /\ pl_pc = "write"
    /\ Len(output_file.v) < Len(valid_files)
    /\ output_file' = Some(Append(output_file.v, pl_OutputData[Len(output_file.v) + 1]))
    /\ UNCHANGED <<pl_pc, pl_prog, existing_data, on_disk, new_files, all_paths, pl_i,
                   valid_files, feature_list, metadata_list, extracted, pl_reduced, pl_others>>

\* the with block ends: the file is closed, the run is over
pl_WriteDone ==
    /\ pl_pc = "write"
    /\ Len(output_file.v) = Len(valid_files)
    /\ pl_pc' = "done"
    /\ UNCHANGED <<pl_prog, existing_data, on_disk, new_files, all_paths, pl_i,
                   valid_files, feature_list, metadata_list, extracted, output_file, pl_reduced,
                   pl_others>>

\* json.dump or the write under it raises (disk full, a value json cannot
\* encode) or the process is stopped: nothing catches it, the run ends
pl_WriteFails ==
    /\ pl_pc = "write"
    /\ Len(output_file.v) < Len(valid_files)
    /\ pl_pc' = "failed"
    /\ UNCHANGED <<pl_prog, existing_data, on_disk, new_files, all_paths, pl_i,
                   valid_files, feature_list, metadata_list, extracted, output_file, pl_reduced,
                   pl_others>>

\* one iteration of the loop of extractor.main (extractor.py:104-113)
pl_ExtractorStep ==
    /\ pl_pc = "loop"
    /\ pl_prog = "extractor"
    /\ pl_i <= Len(all_paths)
    /\ LET f == all_paths[pl_i] IN
       IF InExisting(f)
       THEN /\ valid_files' = Append(valid_files, f)
            /\ feature_list' = Append(feature_list, Entry("cache", f))
            /\ UNCHANGED extracted
       ELSE \E data_ok \in BOOLEAN :
              /\ extracted' = extracted \cup { f }
              /\ valid_files' = IF data_ok THEN Append(valid_files, f) ELSE valid_files
              /\ feature_list' =
                     IF data_ok THEN Append(feature_list, Entry("extract", f))
                     ELSE feature_list
    /\ pl_i' = pl_i + 1
    /\ UNCHANGED <<pl_pc, pl_prog, existing_data, on_disk, new_files, all_paths,
                   metadata_list, output_file, pl_reduced, pl_others>>

\* joblib.dump(results, output_file) (extractor.py:118)
pl_ExtractorWrite ==
    /\ pl_pc = "loop"
    /\ pl_prog = "extractor"
    /\ pl_i > Len(all_paths)
    /\ pl_pc' = "done"
    /\ output_file' = Some(pl_OutputData)
    /\ UNCHANGED <<pl_prog, existing_data, on_disk, new_files, all_paths, pl_i,
                   valid_files, feature_list, metadata_list, extracted, pl_reduced, pl_others>>

pl_Next ==
    \/ pl_Start
    \/ pl_SorterLoad
    \/ pl_AnalyzeStep
    \/ pl_AnalyzeWrite
    \/ pl_DumpRecord
    \/ pl_WriteDone
    \/ pl_WriteFails
    \/ pl_ExtractorStep
    \/ pl_ExtractorWrite

-----------------------------------------------------------------------------
(* remove_overlaps of sorter.py, as a function of its arguments            *)

\* sorter.py:48-49
sorter_GridSize(n, s2) ==
    LET g == ISqrt(s2 * s2 * n) \div 2 IN IF g < MinGridSize THEN MinGridSize ELSE g

\* sorter.py:52-58 and :74-75: min-max scaling to 0..grid_size, then
\* int(round(x)), int(round(y))
sorter_PreferredCell(cs, k, G) ==
    [ ax \in 1..2 |->
        LET lo == MinVal(cs, ax)
            rg == IF MaxVal(cs, ax) - lo = 0 THEN 1 ELSE MaxVal(cs, ax) - lo
        IN  RoundHalfEven((cs[k][ax] - lo) * G, rg) ]

\* sorter.py:63-71
sorter_get_spiral_points(cx, cy, r) ==
    IF r = 0 THEN << <<cx, cy>> >>
    ELSE [ j \in 1..(2 * r + 1) |-> << (cx - r) + (j - 1), cy - r >> ]
      \o [ j \in 1..(2 * r)     |-> << cx + r, (cy - r + 1) + (j - 1) >> ]
      \o [ j \in 1..(2 * r)     |-> << (cx + r - 1) - (j - 1), cy + r >> ]
      \o [ j \in 1..(2 * r - 1) |-> << cx - r, (cy + r - 1) - (j - 1) >> ]

\* sorter.py:77-90: the while loop for one point, from radius r on; gives the
\* point's final cell and the occupied set after it
RECURSIVE sorter_Search(_, _, _, _)
sorter_Search(pref, r, occ, G) ==
    LET pts   == sorter_get_spiral_points(pref[1], pref[2], r)
        free  == { k \in 1..Len(pts) : pts[k] \notin occ }
        found == free # {}
        first == CHOOSE k \in free : \A j \in free : k <= j
        occ1  == IF found THEN occ \cup { pts[first] } ELSE occ
    IN  IF r + 1 > G * 2 THEN [ cell |-> << pref[1], pref[2] >>, occ |-> occ1 ]
        ELSE IF found THEN [ cell |-> pts[first], occ |-> occ1 ]
        ELSE sorter_Search(pref, r + 1, occ, G)

\* sorter.py:73-90: the for loop from point i on
RECURSIVE sorter_PlaceFrom(_, _, _, _, _)
sorter_PlaceFrom(cs, i, occ, fc, G) ==
    IF i > Len(cs) THEN fc
    ELSE LET res == sorter_Search(sorter_PreferredCell(cs, i, G), 0, occ, G)
         IN  sorter_PlaceFrom(cs, i + 1, res.occ, [ fc EXCEPT ![i] = res.cell ], G)

\* sorter.remove_overlaps(coords, spread)
sorter_remove_overlaps(cs, s2) ==
    IF Len(cs) = 0 THEN cs
    ELSE sorter_PlaceFrom(cs, 1, {}, [ k \in 1..Len(cs) |-> <<0, 0>> ],
                          sorter_GridSize(Len(cs), s2))

-----------------------------------------------------------------------------
(* AudioEngine of audio_engine.py                                           *)

Players == 1..PoolSize

\* the pool players other than `player` that are in PlayingState, in pool order
OthersPlaying(playing, player) ==
    SelectSeq([ p \in 1..PoolSize |-> p ], LAMBDA p : p # player /\ playing[p] # 0)

\* the crossfade loop of play (audio_engine.py:42-44): one
\* QTimer.singleShot(300, p.stop) per other playing player.  The timer holds
\* the player only; `sound` notes what that player was playing when the stop
\* was scheduled.
CrossfadeStops(playing, player) ==
    LET others == OthersPlaying(playing, player)
    IN  [ k \in 1..Len(others) |-> [ player |-> others[k], sound |-> playing[others[k]] ] ]

ae_Idle ==
    /\ ae_pc = "idle"
    /\ pool_index = 0
    /\ ae_playing = << >>
    /\ ae_main = 0
    /\ ae_timers = << >>
    /\ ae_plays = 0

\* AudioEngine.__init__
ae_Init ==
    /\ ae_pc = "run"
    /\ pool_index = 0
    /\ ae_playing = [ p \in Players |-> 0 ]
    /\ ae_main = 0
    /\ ae_timers = << >>
    /\ ae_plays = 0

\* play(file_path, start_time, polyphonic)
ae_Play ==
    /\ ae_pc = "run"
    /\ ae_plays < MaxPlays
    /\ ae_plays' = ae_plays + 1
    /\ \E polyphonic \in BOOLEAN :
         IF polyphonic
         THEN LET player == pool_index + 1
              IN  /\ pool_index' = (pool_index + 1) % PoolSize
                  /\ ae_timers' = ae_timers \o CrossfadeStops(ae_playing, player)
                  /\ ae_playing' = [ ae_playing EXCEPT ![player] = ae_plays + 1 ]
                  /\ UNCHANGED ae_main
         ELSE /\ ae_main' = ae_plays + 1
              /\ UNCHANGED <<pool_index, ae_playing, ae_timers>>
    /\ UNCHANGED <<ae_pc, ae_others>>

\* the oldest pending single-shot timer expires and calls p.stop().  All
\* timers run for the same 300 ms, so they expire in the order they were set.
ae_TimerFires ==
    /\ ae_pc = "run"
    /\ Len(ae_timers) > 0
    /\ ae_playing' = [ ae_playing EXCEPT ![Head(ae_timers).player] = 0 ]
    /\ ae_timers' = Tail(ae_timers)
    /\ UNCHANGED <<ae_pc, pool_index, ae_main, ae_plays, ae_others>>

\* stop_all_scrubbing
ae_StopAllScrubbing ==
    /\ ae_pc = "run"
    /\ ae_playing' = [ p \in Players |-> 0 ]
    /\ UNCHANGED <<ae_pc, pool_index, ae_main, ae_timers, ae_plays, ae_others>>

\* a pool player reaches the end of its file and leaves PlayingState
ae_SoundEnds ==
    /\ ae_pc = "run"
    /\ \E p \in Players :
         /\ ae_playing[p] # 0
         /\ ae_playing' = [ ae_playing EXCEPT ![p] = 0 ]
    /\ UNCHANGED <<ae_pc, pool_index, ae_main, ae_timers, ae_plays, ae_others>>

ae_Next ==
    \/ ae_Play
    \/ ae_TimerFires
    \/ ae_StopAllScrubbing
    \/ ae_SoundEnds

-----------------------------------------------------------------------------
(* Right-button scrub of GalaxyPlotWidget (main.py)                         *)

\* a QTimer that is not running
Inactive == 0 - 1

\* the points a scrub can pass over
ScrubPaths == { "s/a.wav", "s/b.wav" }

\* what find_nearest_point(scene_pos, threshold=30) returns
ScrubResults == { None } \cup { Some(f) : f \in ScrubPaths }

\* play_audio(file_path, start_time, polyphonic=True), main.py:448-460: the
\* next player of the pool is stopped if it plays, then plays the file
sc_PlayPolyphonic(pool, idx) == [ pool EXCEPT ![idx + 1] = TRUE ]

\* stop_all_scrubbing, main.py:200-205
stop_all_scrubbing(pool) == [ p \in Players |-> FALSE ]

\* mutant of TimerAfterMiss: every miss restarts the countdown
TimerAfterMiss_Restarts(t) == ScrubTicks

\* main.py:565-566: start(400) unless the timer is active
TimerAfterMiss(t) == IF t = Inactive THEN ScrubTicks ELSE t

sc_Idle ==
    /\ sc_right = FALSE
    /\ scrub_stop_timer = Inactive
    /\ scrub_pool = << >>
    /\ sc_pool_index = 0
    /\ sc_last_played_path = None
    /\ sc_since_miss = 0 - 1

\* GalaxyPlotWidget.__init__, main.py:133-162
sc_Init ==
    /\ sc_right = FALSE
    /\ scrub_stop_timer = Inactive
    /\ scrub_pool = [ p \in Players |-> FALSE ]
    /\ sc_pool_index = 0
    /\ sc_last_played_path = None
    /\ sc_since_miss = 0 - 1

\* mousePressEvent with the right button, main.py:511-531.  update_history
\* may raise; the handler catches everything
sc_MousePress ==
    /\ ~sc_right
    /\ sc_right' = TRUE
    /\ sc_since_miss' = 0 - 1
    /\ \E result \in ScrubResults, history_raises \in BOOLEAN, target_item \in BOOLEAN :
         IF result.none
         THEN UNCHANGED <<scrub_stop_timer, scrub_pool, sc_pool_index, sc_last_played_path>>
         ELSE /\ sc_last_played_path' = result
              /\ IF ~history_raises /\ target_item
                 THEN /\ scrub_stop_timer' = Inactive
                      /\ scrub_pool' = sc_PlayPolyphonic(scrub_pool, sc_pool_index)
                      /\ sc_pool_index' = (sc_pool_index + 1) % PoolSize
                 ELSE UNCHANGED <<scrub_stop_timer, scrub_pool, sc_pool_index>>
    /\ UNCHANGED sc_others

\* mouseMoveEvent with the right button held and a point within the
\* threshold, main.py:548-561
sc_MoveHit ==
    /\ sc_right
    /\ scrub_stop_timer' = Inactive
    /\ sc_since_miss' = 0 - 1
    /\ \E hit_path \in ScrubPaths, history_raises \in BOOLEAN, target_item \in BOOLEAN :
         IF Some(hit_path) # sc_last_played_path
         THEN /\ sc_last_played_path' = Some(hit_path)
              /\ IF ~history_raises /\ target_item
                 THEN /\ scrub_pool' = sc_PlayPolyphonic(scrub_pool, sc_pool_index)
                      /\ sc_pool_index' = (sc_pool_index + 1) % PoolSize
                 ELSE UNCHANGED <<scrub_pool, sc_pool_index>>
         ELSE UNCHANGED <<scrub_pool, sc_pool_index, sc_last_played_path>>
    /\ UNCHANGED <<sc_right, sc_others>>

\* mouseMoveEvent with the right button held and no point within the
\* threshold, main.py:562-566
sc_MoveMiss ==
    /\ sc_right
    /\ scrub_stop_timer' = TimerAfterMiss(scrub_stop_timer)
    /\ sc_since_miss' = IF sc_since_miss < 0 THEN 0 ELSE sc_since_miss
    /\ UNCHANGED <<sc_right, scrub_pool, sc_pool_index, sc_last_played_path, sc_others>>

\* mouseReleaseEvent with the right button, main.py:534-538
sc_MouseRelease ==
    /\ sc_right
    /\ sc_right' = FALSE
    /\ scrub_pool' = stop_all_scrubbing(scrub_pool)
    /\ sc_since_miss' = 0 - 1
    /\ UNCHANGED <<scrub_stop_timer, sc_pool_index, sc_last_played_path, sc_others>>

\* scrub_stop_timer.timeout, connected to stop_all_scrubbing (main.py:149-151)
sc_TimerFires ==
    /\ scrub_stop_timer = 0
    /\ scrub_stop_timer' = Inactive
    /\ scrub_pool' = stop_all_scrubbing(scrub_pool)
    /\ UNCHANGED <<sc_right, sc_pool_index, sc_last_played_path, sc_since_miss, sc_others>>

\* a tick of the clock passes; a timeout that is due is delivered first
sc_Tick ==
    /\ scrub_stop_timer # 0
    /\ \/ scrub_stop_timer > 0
       \/ sc_since_miss >= 0 /\ sc_since_miss <= ScrubTicks
    /\ scrub_stop_timer' = IF scrub_stop_timer > 0 THEN scrub_stop_timer - 1
                           ELSE scrub_stop_timer
    /\ sc_since_miss' = IF sc_since_miss >= 0 /\ sc_since_miss <= ScrubTicks
                        THEN sc_since_miss + 1 ELSE sc_since_miss
    /\ UNCHANGED <<sc_right, scrub_pool, sc_pool_index, sc_last_played_path, sc_others>>

\* a player of the pool reaches the end of its file
sc_SoundEnds ==
    /\ \E p \in Players :
         /\ scrub_pool[p]
         /\ scrub_pool' = [ scrub_pool EXCEPT ![p] = FALSE ]
    /\ UNCHANGED <<sc_right, scrub_stop_timer, sc_pool_index, sc_last_played_path,
                   sc_since_miss, sc_others>>

sc_Next ==
    \/ sc_MousePress
    \/ sc_MoveHit
    \/ sc_MoveMiss
    \/ sc_MouseRelease
    \/ sc_TimerFires
    \/ sc_Tick
    \/ sc_SoundEnds

-----------------------------------------------------------------------------
(* Specifications.                                                         *)

InitOverlap == ro_Init /\ cl_Idle /\ qe_Idle /\ mn_Idle /\ pl_Idle /\ ae_Idle /\ sc_Idle
SpecOverlap == InitOverlap /\ [][ro_Next]_vars

InitClassify == cl_Init /\ ro_Idle /\ qe_Idle /\ mn_Idle /\ pl_Idle /\ ae_Idle /\ sc_Idle
SpecClassify == InitClassify /\ [][cl_Next]_vars

\* the program runs one of the two widgets
InitQuery ==
    /\ ro_Idle
    /\ sc_Idle
    /\ ae_Idle
    /\ cl_Idle
    /\ pl_Idle
    /\ \/ qe_Init /\ mn_Idle
       \/ qe_Idle /\ mn_Init
NextQuery ==
    \/ qe_Next
    \/ mn_Next
SpecQuery == InitQuery /\ [][NextQuery]_vars

InitPipeline == pl_Init /\ ro_Idle /\ cl_Idle /\ qe_Idle /\ mn_Idle /\ ae_Idle /\ sc_Idle
SpecPipeline == InitPipeline /\ [][pl_Next]_vars

InitScrub == sc_Init /\ ro_Idle /\ cl_Idle /\ qe_Idle /\ mn_Idle /\ pl_Idle /\ ae_Idle
SpecScrub == InitScrub /\ [][sc_Next]_vars

\* the functions analyzer.py and sorter.py both define: a run calls one pair
InitTwins ==
    /\ sc_Idle
    /\ qe_Idle
    /\ mn_Idle
    /\ pl_Idle
    /\ ae_Idle
    /\ \/ cl_Init /\ ro_Idle
       \/ cl_Idle /\ ro_Init
NextTwins ==
    \/ cl_Next
    \/ ro_Next
SpecTwins == InitTwins /\ [][NextTwins]_vars

InitAudio == ae_Init /\ ro_Idle /\ cl_Idle /\ qe_Idle /\ mn_Idle /\ pl_Idle /\ sc_Idle
SpecAudio == InitAudio /\ [][ae_Next]_vars

-----------------------------------------------------------------------------
(* Claims about remove_overlaps.                                           *)

ro_n == Len(coords)

\* points whose for-iteration has ended
ro_Placed == IF ro_pc = "done" THEN 1..ro_n
             ELSE IF ro_pc = "scan" THEN 1..(ro_i - 1) ELSE {}

PairwiseDistinct(s, idx) == \A a, b \in idx : a # b => s[a] # s[b]

\* C1: when remove_overlaps has returned and n <= (2*(2G)+1)^2, the n output
\* coordinate pairs are pairwise distinct, whatever the preferred cells are.
C1_NoCollisionBelowCapArea ==
    (ro_pc = "done" /\ ro_n <= (2 * (2 * grid_size) + 1) * (2 * (2 * grid_size) + 1))
        => PairwiseDistinct(final_coords, 1..ro_n)

\* C2: for n <= (2G+1)^2, at every point of the sequential placement the
\* coordinates recorded so far are pairwise distinct, and they are exactly
\* the cells marked occupied (each point recorded the cell it marked).
C2_DistinctBelowGridArea ==
    (ro_pc \in {"scan", "done"} /\ ro_n <= (2 * grid_size + 1) * (2 * grid_size + 1))
        => /\ PairwiseDistinct(final_coords, ro_Placed)
           /\ { final_coords[k] : k \in ro_Placed } = occupied

\* C2 witness: a finished run within the bound in which a point was moved
\* off its occupied preferred cell.
C2_Witness ==
    /\ ro_pc = "done"
    /\ ro_n <= (2 * grid_size + 1) * (2 * grid_size + 1)
    /\ \E k \in 1..ro_n : final_coords[k] # PreferredCell(coords, k, grid_size)

-----------------------------------------------------------------------------
(* Claims about classify_sample.                                           *)

\* the token occurs in the base file name, compared letter by letter
\* without regard to case
ContainsCI(path, tok) ==
    LET base == Basename(path) IN
    \E k \in 1..(Len(base) - Len(tok) + 1) :
        \A j \in 1..Len(tok) :
            LowerChar(SubSeq(base, k + j - 1, k + j - 1)) = SubSeq(tok, j, j)

\* the eleven rule groups of the decision order
RuleMatches(r, path, dur) ==
    CASE r = 1  -> ContainsCI(path, "bpm") \/ ContainsCI(path, "loop") \/ dur > 4000
      [] r = 2  -> \E t \in { "guitar", "gtr", "acoustic", "electric" } : ContainsCI(path, t)
      [] r = 3  -> \E t \in { "piano", "key", "synth", "rhodes", "organ" } : ContainsCI(path, t)
      [] r = 4  -> ContainsCI(path, "bass") \/ ContainsCI(path, "808")
      [] r = 5  -> ContainsCI(path, "kick") \/ ContainsCI(path, "bd")
      [] r = 6  -> \E t \in { "snare", "sd" } : ContainsCI(path, t)
      [] r = 7  -> \E t \in { "clap", "cp" } : ContainsCI(path, t)
      [] r = 8  -> \E t \in { "hat", "hh", "oh", "ch" } : ContainsCI(path, t)
      [] r = 9  -> \E t \in { "crash", "cymbal", "ride", "cy" } : ContainsCI(path, t)
      [] r = 10 -> \E t \in { "tom", "tm" } : ContainsCI(path, t)
      [] r = 11 -> \/ ContainsCI(path, "perc")
                   \/ \E t \in { "fx", "sfx", "riser", "downer", "vox", "vocal" } :
                          ContainsCI(path, t)

RuleLabel(r, dur) ==
    CASE r = 1  -> "LOOP"
      [] r = 2  -> "GUITAR"
      [] r = 3  -> "PIANO"
      [] r = 4  -> "BASS"
      [] r = 5  -> IF dur > 800 THEN "BASS" ELSE "KICK"
      [] r = 6  -> "SNARE"
      [] r = 7  -> "CLAP"
      [] r = 8  -> "HIHAT"
      [] r = 9  -> "CRASH"
      [] r = 10 -> "TOM"
      [] r = 11 -> "FX"

FirstMatchLabel(path, dur) ==
    LET hits == { r \in 1..11 : RuleMatches(r, path, dur) } IN
    IF hits = {} THEN "UNKNOWN"
    ELSE RuleLabel(CHOOSE r \in hits : \A q \in hits : r <= q, dur)

Labels == { "KICK", "SNARE", "CLAP", "HIHAT", "CRASH", "TOM", "BASS", "GUITAR",
            "PIANO", "LOOP", "FX", "UNKNOWN" }

\* C3: classify_sample returns the label of the first matching rule of the
\* fixed order LOOP, GUITAR, PIANO, BASS, kick/bd, SNARE, CLAP, HIHAT, CRASH,
\* TOM, FX, else UNKNOWN; matching ignores case and the directory part, and
\* the result is one of the 12 labels.
C3_FirstMatchWins ==
    /\ cl_pc \in { "analyzer", "done" } =>
           /\ category = FirstMatchLabel(file_path, duration)
           /\ category \in Labels
    /\ cl_pc = "done" =>
           /\ sorter_category = FirstMatchLabel(file_path, duration)
           /\ sorter_category \in Labels

\* C3 witness: a name with upper-case letters under a directory whose own name
\* matches a rule, matching both the bass and the kick group: BASS wins.
C3_Witness ==
    /\ cl_pc = "done"
    /\ file_path = "Kick/KICK_bass.wav"
    /\ duration = 300
    /\ RuleMatches(4, file_path, duration)
    /\ RuleMatches(5, file_path, duration)
    /\ category = "BASS"

\* C4: a name with "kick" or "bd" that matches no earlier rule gives BASS when
\* duration > 0.8 and KICK when duration <= 0.8; and the four named cases.
C4_LongKickIsBass ==
    cl_pc \in { "analyzer", "done" } =>
        /\ ( /\ RuleMatches(5, file_path, duration)
             /\ \A r \in 1..4 : ~RuleMatches(r, file_path, duration) )
               => category = (IF duration > 800 THEN "BASS" ELSE "KICK")
        /\ (file_path = "kick_long.wav" /\ duration = 1200) => category = "BASS"
        /\ (file_path = "kick_01.wav" /\ duration = 300) => category = "KICK"
        /\ (file_path = "house_loop_128bpm.wav" /\ duration = 500) => category = "LOOP"
        /\ (file_path = "unknown_sound.wav" /\ duration = 1000) => category = "UNKNOWN"

\* C4 witness: a kick of exactly 0.8 s has been classified KICK.
C4_Witness ==
    /\ cl_pc = "done"
    /\ file_path = "kick_01.wav"
    /\ duration = 800
    /\ category = "KICK"

\* C4 witness of the named long kick
C4_WitnessLong ==
    /\ cl_pc = "done"
    /\ file_path = "kick_long.wav"
    /\ duration = 1200
    /\ category = "BASS"

-----------------------------------------------------------------------------
(* Claims about the Query Engine                                            *)

\* the visible set each widget holds
qe_VisibleSet == IF visible_indices.none THEN {} ELSE SeqToSet(visible_indices.v)
mn_VisibleSet == SeqToSet(mn_visible_points_data)

\* the visible set recomputed from the loaded records and the filter state
RecomputedVisibleSet ==
    { k \in 1..Len(points_data) :
        /\ filter_oneshot => points_data[k].duration <= OneShotCutoff
        /\ filter_favorites_only => normalize_path(points_data[k].path) \in favorites
        /\ points_data[k].category \in visible_categories }

\* C5: after any sequence of load_data, set_filter_*, set_category_visibility,
\* set_all_categories_visibility, add_favorite, remove_favorite and
\* toggle_favorite, the visible set the ui_components widget holds is the set
\* recomputed from the loaded records and the current filter state: record i is
\* visible iff (one-shot off or duration_i <= 2.0) and (favorites-only off or
\* path_i is in the FavoriteSet) and category_i is enabled.
C5_VisibleSetIsRecomputed ==
    qe_pc = "run" => qe_VisibleSet = RecomputedVisibleSet

\* what a lookup that ended with `last` must satisfy over the visible set V
NearestOk(last, V, pos) ==
    /\ last.result # 0 =>
         /\ last.result \in V
         /\ \A j \in V : SceneDist2(pos[last.result], last.scene_pos, last.scale)
                            <= SceneDist2(pos[j], last.scene_pos, last.scale)
         /\ PixelDist(pos[last.result], last.scene_pos, last.scale) < last.threshold
    /\ (\A k \in V :
           \/ \E j \in V : SceneDist2(pos[j], last.scene_pos, last.scale)
                              < SceneDist2(pos[k], last.scene_pos, last.scale)
           \/ PixelDist(pos[k], last.scene_pos, last.scale) >= last.threshold)
         => last.result = 0

\* the nearest-lookup scenario: cursor near (10, 0), all three points shown
ScenarioOk(last, V, data) ==
    (data = ScenarioDb /\ V = {1, 2, 3} /\ last.scene_pos = <<9, 1>> /\ last.scale = 1)
        => last.result = 2

\* C6: find_nearest_point returns only a point of the current visible set, one
\* that minimises the data-space distance to the cursor among the visible
\* points and whose on-screen distance is below the threshold; it returns no
\* match when no visible point qualifies; in the 3-point database (0,0),
\* (10,0), (10000,10000) a cursor near (10,0) gets the second point.  Both
\* widgets.
C6_NearestIsVisibleArgmin ==
    /\ qe_last.op = "nearest" =>
         /\ NearestOk(qe_last, qe_VisibleSet, pos_arr)
         /\ ScenarioOk(qe_last, qe_VisibleSet, points_data)
    /\ mn_last.op = "nearest" =>
         /\ NearestOk(mn_last, mn_VisibleSet,
                      [ k \in 1..Len(mn_points_data) |->
                          << mn_points_data[k].x, mn_points_data[k].y >> ])
         /\ ScenarioOk(mn_last, mn_VisibleSet, mn_points_data)

\* a lookup that returned a visible point although a hidden one is nearer
C6_Witness ==
    /\ qe_last.op = "nearest"
    /\ qe_last.result # 0
    /\ \E j \in (1..Len(pos_arr)) \ qe_VisibleSet :
         SceneDist2(pos_arr[j], qe_last.scene_pos, qe_last.scale)
             < SceneDist2(pos_arr[qe_last.result], qe_last.scene_pos, qe_last.scale)

\* the scenario of the 3-point database has run and returned the second point
C6_WitnessScenario ==
    /\ qe_last.op = "nearest"
    /\ points_data = ScenarioDb
    /\ qe_VisibleSet = {1, 2, 3}
    /\ qe_last.scene_pos = <<9, 1>>
    /\ qe_last.scale = 1
    /\ qe_last.result = 2

\* what a jump that ended with `last` must satisfy over the points at `pos`
JumpOk(last, pos) ==
    IF last.from.none THEN last.target = 0
    ELSE LET cur    == last.from.v
             Others == { k \in 1..Len(pos) : pos[k] # cur }
         IN  IF Others = {} THEN last.target = 0
             ELSE last.target # 0 =>
                    /\ pos[last.target] # cur
                    /\ Cardinality({ j \in Others :
                                       Dist2(pos[j], cur) < Dist2(pos[last.target], cur) })
                           < NeighborCount

\* C7: jump_to_random_neighbor never selects the point at the current position
\* and always selects one of the NeighborCount (source: 50) points nearest to
\* the current position among the other points; with no current position or
\* no other point it selects nothing.  Both widgets.
C7_JumpPicksNearNeighbor ==
    /\ qe_last.op = "jump" => JumpOk(qe_last, pos_arr)
    /\ mn_last.op = "jump" =>
           JumpOk(mn_last, IF mn_coords_array.none THEN << >> ELSE mn_coords_array.v)

\* C8: disabling a category c removes from the visible set exactly the records
\* of category c, every other record keeps its visibility; and with
\* favorites-only on and an empty FavoriteSet the visible set is empty.  Both
\* widgets.
C8_DisableRemovesOnlyCategory ==
    [][ /\ \A c \in AllCategories :
             (qe_SetCategoryVisibility /\ c \in visible_categories
                  /\ visible_categories' = visible_categories \ { c })
               => qe_VisibleSet' =
                      qe_VisibleSet \ { k \in 1..Len(points_data) :
                                          points_data[k].category = c }
        /\ \A c \in AllCategories :
             (mn_SetCategoryVisibility /\ c \in mn_visible_categories
                  /\ mn_visible_categories' = mn_visible_categories \ { c })
               => mn_VisibleSet' =
                      mn_VisibleSet \ { k \in 1..Len(mn_points_data) :
                                          mn_points_data[k].category = c }
        /\ (filter_favorites_only' /\ favorites' = {}) => qe_VisibleSet' = {}
        /\ (mn_filter_favorites_only' /\ mn_favorites' = {}) => mn_VisibleSet' = {}
      ]_vars

-----------------------------------------------------------------------------
(* Claims about the pipeline                                                *)

\* positions of all_paths the loop has finished
pl_Processed == { all_paths[k] : k \in 1..Min2(pl_i - 1, Len(all_paths)) }

\* C9: in a pipeline run (analyze_samples or extractor.main) a path is served
\* from the cache only if it was not discovered in this scan, has a cache
\* entry, the entry has a feature vector and the vector deserializes; and
\* every file discovered in this scan is re-extracted even when a cache entry
\* exists under its path.
C9_CacheOnlyWhenNotScanned ==
    pl_pc \in { "loop", "done" } =>
      /\ \A k \in 1..Len(valid_files) :
           feature_list[k].src = "cache" =>
             /\ valid_files[k] \notin new_files
             /\ existing_data[valid_files[k]] = "ok"
      /\ \A f \in new_files \cap pl_Processed : f \in extracted

\* C10: the working set of analyze_samples is the sorted union of the known
\* and the scanned paths, and a path that is only in the old cache and not on
\* disk is absent from the database the run writes, with or without a feature
\* vector in its cache entry.
C10_StalePathsSkipped ==
    (pl_prog = "analyzer" /\ pl_pc \in { "loop", "done" }) =>
      /\ all_paths = SortedPaths({ f \in Paths : InExisting(f) } \cup new_files)
      /\ (pl_pc = "done" /\ ~output_file.none) =>
           \A f \in Paths :
             (InExisting(f) /\ f \notin new_files /\ f \notin on_disk) =>
               \A k \in 1..Len(output_file.v) : output_file.v[k].path # f

\* the run is a second run over an unchanged folder: the old database is the
\* one a first run wrote, an entry with features for every scanned file and
\* for no other path
pl_UnchangedRerun ==
    /\ new_files # {}
    /\ \A f \in Paths : existing_data[f] = (IF f \in new_files THEN "ok" ELSE "none")

\* C11: a second run over an unchanged folder with the database of the first
\* run re-extracts no file: every file gets its feature vector from the cache,
\* and the run still goes through the reduction stage and writes its output.
C11_RerunExtractsNothing ==
    (pl_UnchangedRerun /\ pl_pc = "done") =>
      /\ extracted = {}
      /\ { valid_files[k] : k \in 1..Len(valid_files) } = new_files
      /\ \A k \in 1..Len(feature_list) : feature_list[k].src = "cache"
      /\ ~output_file.none

\* the paths of valid_files
pl_ValidSet == { valid_files[k] : k \in 1..Len(valid_files) }

\* an entry that is validly cached: not of this scan, with features np.array
\* accepts
pl_ValidlyCached(f) == f \notin new_files /\ existing_data[f] = "ok"

-----------------------------------------------------------------------------
(* Claims about the FavoriteSet and about load_data                         *)

-----------------------------------------------------------------------------
(* Claims about the database file                                           *)

\* C14: a run of analyze_samples or sorter.main touches the database file only
\* after every record has been computed, and at every point of the run,
\* a failed write included, the file holds the complete previous collection
\* (here: it is untouched) or the complete new one, never a part; a run that
\* ends with no valid sample leaves the file unchanged.
C14_WriteIsAllOrNothing ==
    pl_prog \in { "analyzer", "sorter" } =>
      /\ ~output_file.none =>
           /\ pl_i > Len(all_paths)
           /\ output_file.v = pl_OutputData
      /\ (pl_pc = "done" /\ Len(valid_files) = 0) => output_file.none

\* the in-memory corpus of the ui_components widget holds the records of db,
\* one entry per record and in the order of the file, and nothing else
qe_Reflects(db) ==
    /\ points_data = db
    /\ Len(ids_arr) = Len(db)
    /\ Len(pos_arr) = Len(db)
    /\ Len(duration_arr) = Len(db)
    /\ Len(category_arr) = Len(db)
    /\ Len(is_fav_arr) = Len(db)
    /\ \A k \in 1..Len(db) :
         /\ ids_arr[k] = normalize_path(db[k].path)
         /\ pos_arr[k] = << db[k].x, db[k].y >>
         /\ duration_arr[k] = ToFloat32(db[k].duration)
         /\ category_arr[k] = db[k].category
    /\ DOMAIN path_to_index = { normalize_path(db[k].path) : k \in 1..Len(db) }
    /\ DOMAIN start_times = DOMAIN path_to_index
    /\ qe_VisibleSet \subseteq 1..Len(db)

\* C15: load_data(file) on a ui_components widget that already holds a corpus
\* leaves the in-memory state (paths, positions, durations, categories,
\* favourite flags, path index, start times, visible set) holding the records
\* of the loaded file and nothing of the corpus held before, for every
\* database file that exists, a file of zero records included.
C15_LoadReplacesWholesale ==
    [][ \A file \in DbFiles :
          (~file.none /\ Len(points_data) > 0 /\ qe_Load(file))
              => qe_Reflects(file.v)' ]_vars

\* C16: in every database a run of the analyzer or the sorter has written,
\* each stored path is canonical (normalize_path(p) = p) and no two records
\* denote the same file, also when the paths of the previous database are
\* merged with a scan of the same directory given under another spelling; and
\* the path index of the ui_components widget maps every loaded record to its
\* own index.
C16_PathIsCanonicalKey ==
    /\ (pl_prog \in { "analyzer", "sorter" } /\ pl_pc = "done" /\ ~output_file.none) =>
         LET db == output_file.v
         IN  /\ \A k \in 1..Len(db) : normalize_path(db[k].path) = db[k].path
             /\ \A j, k \in 1..Len(db) :
                    normalize_path(db[j].path) = normalize_path(db[k].path) => j = k
    /\ \A k \in 1..Len(ids_arr) : path_to_index[ids_arr[k]] = k

\* the (path, x, y, cluster, category) tuples a database file holds, and the
\* tuples the two widgets hold after a load: the ui_components widget answers
\* with ids_arr, pos_arr and category_arr and reads the cluster from the record
\* it kept; the main.py widget works on the records themselves
WrittenTuples(db) ==
    [ k \in 1..Len(db) |-> << db[k].path, db[k].x, db[k].y, db[k].cluster, db[k].category >> ]

qe_LoadedTuples ==
    [ k \in 1..Len(ids_arr) |->
        << ids_arr[k], pos_arr[k][1], pos_arr[k][2], points_data[k].cluster, category_arr[k] >> ]

mn_LoadedTuples == WrittenTuples(mn_points_data)

\* C17: loading a written Corpus Database (at least one record) into a widget
\* leaves it with, for every record and in the order of the file, the
\* identical (path, x, y, cluster, category) tuple that was written.
C17_RoundTripIsIdentity ==
    [][ /\ \A file \in DbFiles :
             (Truthy(file) /\ qe_Load(file)) => qe_LoadedTuples' = WrittenTuples(file.v)
        /\ (mn_pc = "init" /\ mn_pc' = "run" /\ mn_points_data' # << >>)
             => \E file \in DbFiles : ~file.none /\ mn_LoadedTuples' = WrittenTuples(file.v) ]_vars

-----------------------------------------------------------------------------
(* Claims about determinism                                                 *)

\* C18: remove_overlaps is deterministic: a second call on the same coordinate
\* sequence and the same spread returns the output of the first call; nothing
\* a call leaves behind reaches the next one.
C18_RemoveOverlapsDeterministic ==
    (ro_pc = "done" /\ ~ro_prev.none) => final_coords = ro_prev.v

\* a second call has returned for an input in which points competed for cells
C18_Witness ==
    /\ ro_pc = "done"
    /\ ~ro_prev.none
    /\ Len(coords) >= 2
    /\ \E j, k \in 1..Len(coords) : j # k /\ coords[j] = coords[k]
    /\ \A j, k \in 1..Len(coords) : j # k => final_coords[j] # final_coords[k]

-----------------------------------------------------------------------------
(* Claims about a missing or unreadable database file                       *)

\* the last lookup of a widget reported no match
NoMatch(last) ==
    /\ last.op = "nearest" => last.result = 0
    /\ last.op = "jump" => last.target = 0

\* C19: loading a database file that is missing or unreadable never raises in
\* the interactive layer: load_data returns, and a widget that was given no
\* other file shows an empty corpus, on which find_nearest_point and
\* jump_to_random_neighbor report no match.
C19_MissingDatabaseIsHarmless ==
    /\ mn_pc # "raised"
    /\ (qe_pc = "run" /\ Len(points_data) = 0) =>
         /\ Len(ids_arr) = 0
         /\ qe_VisibleSet = {}
         /\ NoMatch(qe_last)
    /\ (mn_pc = "run" /\ Len(mn_points_data) = 0) =>
         /\ mn_VisibleSet = {}
         /\ NoMatch(mn_last)

-----------------------------------------------------------------------------
(* Claims about the canonical form of the FavoriteSet                       *)

Canonical(S) == \A p \in S : normalize_path(p) = p

\* C20: after any sequence of load_favorites, add_favorite, remove_favorite,
\* toggle_favorite, file drops and load_data, every member of the FavoriteSet,
\* in memory and in the favourites file, of either widget, is a canonical path
\* (normalize_path(p) = p); and no load_data changes the set or the file.
C20_FavoritesAreCanonical ==
    /\ [](/\ Canonical(favorites)
          /\ Canonical(favorites_file.v)
          /\ Canonical(mn_favorites)
          /\ Canonical(mn_favorites_file.v))
    /\ [][ (qe_LoadData \/ mn_LoadData) =>
             /\ favorites' = favorites
             /\ favorites_file' = favorites_file
             /\ mn_favorites' = mn_favorites
             /\ mn_favorites_file' = mn_favorites_file ]_vars

-----------------------------------------------------------------------------
(* Claims about the spiral search of remove_overlaps                        *)

\* the cells of rings 0..R around the cell c
RingCells(c, R) ==
    UNION { SeqToSet(get_spiral_points(c[1], c[2], r)) : r \in 0..R }

\* C21: a point lies on a cell an earlier point already has only when every
\* cell of rings 0..2G around its preferred cell is occupied; and every cell
\* marked occupied is the final coordinate of exactly one placed point, so a
\* cell the search claimed at a radius in 0..2G is where its point ends up.
C21_FallbackOnlyWhenRingsFull ==
    ro_pc \in {"scan", "done"} =>
      /\ \A k \in ro_Placed :
           (\E j \in ro_Placed : j < k /\ final_coords[j] = final_coords[k])
             => RingCells(PreferredCell(coords, k, grid_size), 2 * grid_size) \subseteq occupied
      /\ \A c \in occupied :
           Cardinality({ k \in ro_Placed : final_coords[k] = c }) = 1

ChebDist(a, b) == Max2(Abs(a[1] - b[1]), Abs(a[2] - b[2]))

Box(c, R) == { <<x, y>> : x \in (c[1] - R)..(c[1] + R), y \in (c[2] - R)..(c[2] + R) }

\* the cells at Chebyshev distance exactly r from c
Ring(c, r) == { d \in Box(c, r) : ChebDist(d, c) = r }

\* position of the cell d of Ring(c, r) in the visit order: top edge left to
\* right, right edge top to bottom, bottom edge right to left, left edge
\* bottom to top
SpiralRank(d, c, r) ==
    IF r = 0 THEN 1
    ELSE IF d[2] = c[2] - r THEN d[1] - (c[1] - r) + 1
    ELSE IF d[1] = c[1] + r THEN (2 * r + 1) + (d[2] - (c[2] - r))
    ELSE IF d[2] = c[2] + r THEN (4 * r + 1) + (c[1] + r - d[1])
    ELSE (6 * r + 1) + (c[2] + r - d[2])

\* C22: in every step of the search for point i, with p its preferred cell
\* and r the current radius: the ring enumerates each cell at Chebyshev
\* distance r from p once (one cell for r = 0, 8r cells otherwise), in the
\* order top, right, bottom, left; every cell nearer to p than r is occupied;
\* the step claims the first unoccupied cell of the ring in that order, and
\* passes to the next ring only when the ring has no free cell.  The claimed
\* cell therefore has the minimum Chebyshev distance to p among free cells.
C22_ClaimsFirstFreeInSpiralOrder ==
    [][ ro_pc = "scan" =>
          LET p   == PreferredCell(coords, ro_i, grid_size)
              pts == get_spiral_points(p[1], p[2], radius)
          IN  /\ Len(pts) = (IF radius = 0 THEN 1 ELSE 8 * radius)
              /\ SeqToSet(pts) = Ring(p, radius)
              /\ \A d \in Ring(p, radius) : pts[SpiralRank(d, p, radius)] = d
              /\ radius > 0 => Box(p, radius - 1) \subseteq occupied
              /\ occupied' = occupied => Ring(p, radius) \subseteq occupied
              /\ occupied' # occupied =>
                   \E c \in Ring(p, radius) \ occupied :
                     /\ occupied' = occupied \cup { c }
                     /\ \A d \in Ring(p, radius) :
                          SpiralRank(d, p, radius) < SpiralRank(c, p, radius)
                              => d \in occupied
                     /\ \A d \in Box(p, 2 * grid_size) \ occupied :
                          ChebDist(c, p) <= ChebDist(d, p) ]_vars

\* a point was moved to the last cell of ring 1, on the left edge
C22_Witness ==
    /\ ro_pc = "done"
    /\ \E k \in 1..ro_n :
         LET p == PreferredCell(coords, k, grid_size)
         IN  final_coords[k] = << p[1] - 1, p[2] >>

-----------------------------------------------------------------------------
(* Claims about the grid side and the preferred cells                       *)

\* every preferred cell lies in [0, G] x [0, G]; an axis on which all points
\* have the same raw coordinate maps to cell 0
PreferredCellsInGrid ==
    \A k \in 1..ro_n : \A ax \in 1..2 :
        /\ PreferredAxis(coords, k, ax, grid_size) \in 0..grid_size
        /\ MaxVal(coords, ax) = MinVal(coords, ax)
             => PreferredAxis(coords, k, ax, grid_size) = 0

\* C23 as stated: for n >= 1 the grid side is the clamp or sqrt(n) * spread
\* rounded to the nearest integer, whichever is larger, and every preferred
\* cell lies in [0, G] x [0, G], a zero-range axis mapped to cell 0.
C23_GridSideIsRounded ==
    (ro_pc \in {"scan", "done"} /\ ro_n >= 1) =>
      /\ grid_size = Max2(MinGridSize, RoundSqrt(ro_n, spread2))
      /\ PreferredCellsInGrid

\* C23 amended: the grid side is the clamp or sqrt(n) * spread truncated to
\* an integer (the largest g with g <= sqrt(n) * spread), whichever is larger;
\* the statement about the preferred cells is unchanged.
C23_GridSideIsTruncated ==
    (ro_pc \in {"scan", "done"} /\ ro_n >= 1) =>
      LET a == spread2 * spread2 * ro_n IN
      /\ grid_size >= MinGridSize
      /\ grid_size > MinGridSize =>
           (2 * grid_size) * (2 * grid_size) <= a
      /\ a < (2 * grid_size + 2) * (2 * grid_size + 2)
      /\ PreferredCellsInGrid

\* a finished call whose grid side is above the clamp and differs from the
\* rounded product, with a point on cell G of one axis and a zero-range axis
C23_Witness ==
    /\ ro_pc = "done"
    /\ grid_size > MinGridSize
    /\ grid_size # RoundSqrt(ro_n, spread2)
    /\ \E k \in 1..ro_n : PreferredAxis(coords, k, 1, grid_size) = grid_size
    /\ MaxVal(coords, 2) = MinVal(coords, 2)

-----------------------------------------------------------------------------
(* Claims about termination                                                 *)

\* Inputs for the termination runs: 0, 1, 10 and MaxDense points on one
\* coordinate.  With the grid side at its clamp the rings 0..2G around a cell
\* hold (4G+1)^2 cells, so the last of MaxDense points finds all of them taken.
ro_InitDense ==
    /\ ro_pc = "start"
    /\ coords \in { Pile(<<0, 0>>, k) : k \in { 0, 1, 10, MaxDense } }
    /\ spread2 \in { 0, 1 }
    /\ ro_i = 0
    /\ radius = 0
    /\ occupied = {}
    /\ final_coords = << >>
    /\ ro_prev = [ none |-> TRUE, v |-> << >> ]

InitOverlapDense == ro_InitDense /\ cl_Idle /\ qe_Idle /\ mn_Idle /\ pl_Idle /\ ae_Idle /\ sc_Idle

\* remove_overlaps is sequential code: a call that can take a step takes it
SpecOverlapFair == InitOverlapDense /\ [][ro_Next]_vars /\ WF_vars(ro_Next)

\* C24: every call of remove_overlaps returns: the search of a point never
\* examines a ring beyond 2G, each call that has started reaches its return
\* statement, and the value returned holds one coordinate per input point.
C24_RemoveOverlapsTerminates ==
    /\ [](ro_pc = "scan" => radius <= 2 * grid_size)
    /\ [](ro_pc = "done" => Len(final_coords) = ro_n)
    /\ (ro_pc = "start") ~> (ro_pc = "done")

\* a call has returned in which a point found every cell of rings 0..2G
\* around its preferred cell occupied and was put on that cell
C24_Witness ==
    /\ ro_pc = "done"
    /\ \E k \in 1..ro_n :
         LET p == PreferredCell(coords, k, grid_size)
         IN  /\ final_coords[k] = p
             /\ \E j \in 1..(k - 1) : final_coords[j] = p
             /\ Cardinality({ j \in 1..(k - 1) :
                                PreferredCell(coords, j, grid_size) = p })
                  >= (4 * grid_size + 1) * (4 * grid_size + 1)

-----------------------------------------------------------------------------
(* Claims about degenerate batches                                          *)

\* the run of analyze_samples or sorter.main is past its loop
pl_PastLoop == pl_pc \in { "write", "done", "failed", "raised" }

\* C25: a batch of 0 or 1 samples is a normal outcome of analyze_samples and
\* of sorter.main: with 0 samples the run ends with no reduction, nothing
\* written and no error; with exactly 1 sample TSNE is not invoked, nothing is
\* raised, and a run that completes has written a database of one record.
C25_DegenerateBatchIsNormal ==
    (pl_prog \in { "analyzer", "sorter" } /\ pl_PastLoop) =>
      /\ Len(valid_files) = 0 =>
           /\ pl_pc = "done"
           /\ pl_reduced = "no"
           /\ output_file.none
      /\ Len(valid_files) = 1 =>
           /\ pl_reduced = "skipped"
           /\ pl_pc # "raised"
           /\ pl_pc = "done" => (~output_file.none /\ Len(output_file.v) = 1)

-----------------------------------------------------------------------------
(* Claims about polyphonic playback                                         *)

\* C26: a delayed crossfade stop only stops the sound that was playing on its
\* player when the stop was scheduled: when a pending stop expires, its
\* player is stopped already or still plays that sound, never a sound that
\* was started on the player after the stop was scheduled.
C26_DelayedStopHitsOnlyItsSound ==
    [][ Len(ae_timers') < Len(ae_timers) =>
          ae_playing[Head(ae_timers).player] \in { 0, Head(ae_timers).sound } ]_vars

-----------------------------------------------------------------------------
(* Claims about the two implementations of the Query Engine                 *)

\* C27: for the records, FavoriteSet and filter state the ui_components
\* widget holds, the visible set of its vectorized mask is the visible set
\* the per-record loop of main.py computes from the same inputs, for every
\* record, records with a category outside the known labels included.
C27_SameVisibleSet ==
    (qe_pc = "run" /\ Len(points_data) > 0) =>
        qe_VisibleSet =
            SeqToSet(mn_UpdatePlot(points_data, favorites, filter_oneshot,
                                   filter_favorites_only, visible_categories))

-----------------------------------------------------------------------------
(* Claims about the functions analyzer.py and sorter.py both define         *)

\* C28: classify_sample of analyzer.py and of sorter.py return the same label
\* for every (file path, duration), and remove_overlaps of analyzer.py and of
\* sorter.py return the same coordinates for every (coords, spread).
C28_TwinFunctionsAgree ==
    /\ cl_pc = "done" => category = sorter_category
    /\ ro_pc = "done" => final_coords = sorter_remove_overlaps(coords, spread2)

\* remove_overlaps has returned for an input that took the fallback: the last
\* point lies on the cell of the first
C28_Witness ==
    /\ ro_pc = "done"
    /\ ro_n >= 2
    /\ final_coords[ro_n] = final_coords[1]
    /\ \E k \in 1..ro_n : final_coords[k] # PreferredCell(coords, k, grid_size)

-----------------------------------------------------------------------------
(* Claims about the three lists of analyze_samples                          *)

\* C29: at every step of the loop of analyze_samples, feature_list,
\* metadata_list and valid_files have the same length and entry k of each
\* belongs to the same path; a path of the working set contributes at most
\* one entry, the entries are in ascending path order, and every record
\* written to the database pairs a path with its own features and metadata.
C29_ListsStayAligned ==
    pl_prog = "analyzer" =>
      /\ Len(feature_list) = Len(valid_files)
      /\ Len(metadata_list) = Len(valid_files)
      /\ \A k \in 1..Len(valid_files) :
           /\ feature_list[k].of = valid_files[k]
           /\ metadata_list[k].of = valid_files[k]
           /\ metadata_list[k].src = feature_list[k].src
      /\ \A j, k \in 1..Len(valid_files) :
           j < k => PathRank(valid_files[j]) < PathRank(valid_files[k])
      /\ \A f \in pl_ValidSet : \E k \in 1..Len(all_paths) : k < pl_i /\ all_paths[k] = f
      /\ ~output_file.none =>
           \A k \in 1..Len(output_file.v) :
             /\ output_file.v[k].path = valid_files[k]
             /\ output_file.v[k].features.of = output_file.v[k].path
             /\ output_file.v[k].meta.of = output_file.v[k].path

\* a run has written a cached record and a record re-extracted after its
\* cache entry failed to deserialize
C29_Witness ==
    /\ pl_prog = "analyzer"
    /\ pl_pc = "done"
    /\ ~output_file.none
    /\ Len(output_file.v) >= 2
    /\ \E j, k \in 1..Len(output_file.v) :
         /\ output_file.v[j].features.src = "cache"
         /\ output_file.v[k].features.src = "extract"
         /\ existing_data[output_file.v[k].path] = "bad"
         /\ output_file.v[k].path \notin new_files

-----------------------------------------------------------------------------
(* Claims about the right-button scrub                                      *)

sc_Playing == \E p \in Players : scrub_pool[p]

\* C30: during a right-button scrub the stop countdown is started by the
\* first move with no point within the threshold and left alone by later
\* misses, a move that hits a point cancels it, its timeout stops every
\* player of the scrub pool, and so does releasing the button; so no scrub
\* sound plays through more than 400 ms of continuous misses, nor after the
\* release.
C30_ScrubStopsAfterMissesOrRelease ==
    /\ [](sc_Playing /\ sc_since_miss >= 0 => sc_since_miss <= ScrubTicks)
    /\ [](sc_Playing => sc_right)
    /\ [][ /\ sc_MoveMiss =>
                IF sc_since_miss < 0
                THEN scrub_stop_timer = Inactive /\ scrub_stop_timer' = ScrubTicks
                ELSE scrub_stop_timer' = scrub_stop_timer /\ scrub_stop_timer # Inactive
           /\ sc_MoveHit => scrub_stop_timer' = Inactive
           /\ sc_TimerFires => ~sc_Playing'
           /\ sc_MouseRelease => ~sc_Playing' ]_vars

\* C30 as the code has it: a miss starts the countdown unless one is running,
\* the one a released scrub left running included (mouseReleaseEvent does not
\* stop the timer); a hit cancels it; timeout and release stop every player
\* of the pool.  No countdown is running while a sound plays that no miss has
\* followed, so the first miss after a sound starts a full one, and no scrub
\* sound plays through more than 400 ms of continuous misses, nor after the
\* release.
C30_CountdownStartsUnlessRunning ==
    /\ [](sc_Playing /\ sc_since_miss >= 0 => sc_since_miss <= ScrubTicks)
    /\ [](sc_Playing => sc_right)
    /\ [](sc_Playing /\ sc_since_miss < 0 => scrub_stop_timer = Inactive)
    /\ [][ /\ sc_MoveMiss =>
                IF scrub_stop_timer = Inactive
                THEN scrub_stop_timer' = ScrubTicks
                ELSE scrub_stop_timer' = scrub_stop_timer
           /\ sc_MoveHit => scrub_stop_timer' = Inactive
           /\ sc_TimerFires => ~sc_Playing'
           /\ sc_MouseRelease => ~sc_Playing' /\ scrub_stop_timer' = scrub_stop_timer ]_vars

\* a sound is still playing when the countdown started by the first miss is
\* due, later misses having happened meanwhile
C30_Witness ==
    /\ sc_right
    /\ sc_Playing
    /\ sc_since_miss = ScrubTicks
    /\ scrub_stop_timer = 0

====
